---- MODULE Spec2Model ----
(***************************************************************************)
(* Model of the ZCTA-level ETL pipeline of housing-commute-analysis        *)
(* (src/src/pipelines): feature derivation, the tract -> ZCTA centroid     *)
(* mapping, the two aggregators, and the income segmentation.              *)
(*                                                                         *)
(* A pandas DataFrame is a sequence of records (its rows, in order).       *)
(* A float64 cell is a pair <<n, d>> in lowest terms: d > 0 is the         *)
(* rational n/d, <<0, 0>> is NaN / pd.NA (missing), <<1, 0>> and           *)
(* <<-1, 0>> are +inf and -inf.  Arithmetic is exact (rounding of float64  *)
(* is not modelled).  A cell of a Census API response is <<"null", 0>>     *)
(* (JSON null) or <<"str", i>> (the decimal text of the integer i).        *)
(* An identifier (ZCTA5 code) is a sequence of decimal digits.             *)
(***************************************************************************)
EXTENDS Integers, Sequences, FiniteSets, TLC

VARIABLES
    stage,              \* position of the run inside the modelled operation
    acs_api,            \* rows of the ACS API response (fetch_acs_for_county)
    acs_raw,            \* fetch_acs_for_county's result / build.py acs_raw
    acs_features,       \* compute_acs_features' result
    demo_api,           \* rows of the demographics API response
    demo_raw,           \* fetch_demographics_for_county's result
    demo_with_pct,      \* compute_demographic_percentages' result
    tracts_gdf,         \* census tracts: rows [GEOID, centroid]
    zctas_gdf,          \* reporting areas: rows [ZCTA5CE, geometry]
    tract_to_zcta_map,  \* rows [GEOID, ZCTA5CE]
    zcta_aggregated,    \* build.py: commute table per ZCTA
    zcta_demographics,  \* aggregate_demographics_to_zcta's result
    final_dataset       \* rows carrying median_income (and income_segment)

VARIABLES
    tiger_server,       \* TIGERweb ZCTA layer: rows [ZCTA5, geometry]
    tiger_errors,       \* <<prefix, offset>> -> the exception that request raises
    zip_prefixes,       \* the argument of get_state_zctas (<<>> for [] and None)
    zip_prefixes_is_none, \* TRUE when the caller passed None
    tiger_requests,     \* the requests get_state_zctas sent, in order
    tiger_ZIP_PREFIXES, \* tiger.py's binding of config.ZIP_PREFIXES
    cbsa_boundary       \* the CBSA polygon: a set of locations

VARIABLES
    zori_latest,        \* fetch_zori_latest's result: rows [zip, period, zori]
    zori_data,          \* build.py: zori_data after rename and zfill
    osm_responses,      \* per ZCTA row: outcome of the two Overpass queries
    transit_density,    \* zcta_transit_density's result
    zori_csv,           \* the ZIP-level table downloaded by fetch_zori_latest
    osm_queries,        \* the Overpass queries sent, in order
    build_log           \* the counts build_final_dataset passed to logger.info

VARIABLES
    environ,            \* os.environ["METRO"], or "unset"
    config,             \* globals of the config module, "unloaded" before import
    spatial_UTM_ZONE,   \* spatial.py's binding of config.UTM_ZONE
    pc,                 \* position of run_pipeline.main
    results,            \* main: list of (metro, success, message)
    run,                \* the current run_single_metro / build_final_dataset
    files,              \* file system: path -> content
    attempted,          \* the metros build_final_dataset was called for
    summary             \* main's report: <<failed_metros, exit code>>

VARIABLES
    call_args,          \* (state_fips, county_fips, year) of a fetch call
    call_outcome,       \* "none", "ValueError" or "returned"
    http_log            \* the HTTP requests issued so far

tableVars == <<acs_api, acs_raw, acs_features, demo_api, demo_raw,
               demo_with_pct, tracts_gdf, zctas_gdf, tract_to_zcta_map,
               zcta_aggregated, zcta_demographics, final_dataset>>

tigerVars == <<tiger_server, tiger_errors, zip_prefixes, zip_prefixes_is_none,
               tiger_requests, tiger_ZIP_PREFIXES, cbsa_boundary>>

assemblyVars == <<zori_latest, zori_data, osm_responses, transit_density,
                  zori_csv, osm_queries, build_log>>

runVars == <<environ, config, spatial_UTM_ZONE, pc, results, run, files,
             attempted, summary>>

callVars == <<call_args, call_outcome, http_log>>

vars == <<stage, tableVars, tigerVars, assemblyVars, runVars, callVars>>

\* the parts of the state an operation does not use, at rest
TigerIdle ==
    /\ tiger_server = <<>>
    /\ tiger_errors = <<>>
    /\ zip_prefixes = <<>>
    /\ zip_prefixes_is_none = FALSE
    /\ tiger_requests = <<>>
    /\ tiger_ZIP_PREFIXES = <<>>
    /\ cbsa_boundary = {}

AssemblyIdle ==
    /\ zori_latest = <<>>
    /\ zori_data = <<>>
    /\ osm_responses = <<>>
    /\ transit_density = <<>>
    /\ zori_csv = <<>>
    /\ osm_queries = <<>>
    /\ build_log = <<>>

RunIdle ==
    /\ environ = "unset"
    /\ config = [SELECTED_METRO |-> "unloaded"]
    /\ spatial_UTM_ZONE = 0
    /\ pc = "idle"
    /\ results = <<>>
    /\ run = [step |-> "none"]
    /\ files = <<>>
    /\ attempted = <<>>
    /\ summary = <<>>

CallIdle ==
    /\ call_args = <<>>
    /\ call_outcome = "none"
    /\ http_log = <<>>

-----------------------------------------------------------------------------
(* Bounds of the model and constants of the program *)

\* largest positive count / amount an API cell holds in the enumerated inputs
MaxCount == 1

\* number of census tracts in the enumerated inputs
NumTracts == 2

\* number of locations a centroid can have / a polygon can contain
NumPoints == 2

\* largest number of rows of the ZCTA table
MaxZctaRows == 2

\* number of census tracts in the inputs of the commute aggregation
NumAcsTracts == 3

\* largest number of rows of the table that is segmented by income
MaxRows == 5

\* number of ZCTA codes the boundary service can hold in a pipeline run
NumBuildIds == 3

\* longest state or county code passed to a fetch function
MaxCodeLen == 3

\* number of page requests that fail in one call of get_state_zctas
MaxPageErrors == 2

\* number of metros of main's list that a batch processes
NumMetros == 2

\* the Census "not available" code: -666666666 in the program.  The code
\* reads only its sign (acs.py) or takes it as a number (demographics.py);
\* the model uses a 3-digit code so that products stay within TLC's
\* 32-bit integers
SENTINEL == -666

\* f"https://api.census.gov/data/{year}/..." default years
DEFAULT_ACS_YEAR == 2021

DEFAULT_DEMO_YEAR == 2023

-----------------------------------------------------------------------------
(* float64 cells *)

Sgn(i) == IF i > 0 THEN 1 ELSE IF i < 0 THEN -1 ELSE 0

Abs(i) == IF i < 0 THEN -i ELSE i

RECURSIVE GCD(_, _)
GCD(a, b) == IF b = 0 THEN a ELSE GCD(b, a % b)

\* lowest terms, positive denominator; d = 0 keeps only the sign
Norm(x) ==
    IF x[2] = 0 THEN <<Sgn(x[1]), 0>>
    ELSE LET s == Sgn(x[2])
             g == GCD(Abs(x[1]), Abs(x[2]))
         IN  <<(s * x[1]) \div g, (s * x[2]) \div g>>

Num(i) == <<i, 1>>

NaN == <<0, 0>>

isna(x) == x = NaN

IsInf(x) == x[2] = 0 /\ x[1] # 0

Mul(x, y) == Norm(<<x[1] * y[1], x[2] * y[2]>>)

\* 1/y: 1/0 = inf, 1/inf = 0, 1/NaN = NaN
Recip(y) ==
    IF y[1] > 0 THEN <<y[2], y[1]>>
    ELSE IF y[1] < 0 THEN <<-y[2], -y[1]>>
    ELSE <<y[2], 0>>

\* x / y as numpy divides float64: 0/0 = NaN, c/0 = +-inf, no exception
Div(x, y) == Mul(x, Recip(y))

Add(x, y) ==
    IF x[2] = 0 /\ y[2] = 0
    THEN (IF x = y THEN x ELSE NaN)
    ELSE Norm(<<x[1] * y[2] + y[1] * x[2], x[2] * y[2]>>)

Neg(x) == <<-x[1], x[2]>>

Sub(x, y) == Add(x, Neg(y))

\* comparisons: False when either side is missing
Lt(x, y) ==
    /\ ~isna(x)
    /\ ~isna(y)
    /\ IF x[2] = 0 /\ y[2] = 0 THEN x[1] < y[1]
       ELSE x[1] * y[2] < y[1] * x[2]

Gt(x, y) == Lt(y, x)

Le(x, y) == ~isna(x) /\ ~isna(y) /\ (x = y \/ Lt(x, y))

\* Series.replace(0, pd.NA) on one cell
ReplaceZero(x) == IF x = Num(0) THEN NaN ELSE x

\* Series.fillna(0) on one cell
FillNa0(x) == IF isna(x) THEN Num(0) ELSE x

\* Series.clip(lower=0) on one cell (NaN stays NaN)
ClipLower0(x) == IF Lt(x, Num(0)) THEN Num(0) ELSE x

\* Series.sum(): skipna=True, the sum of no values is 0
RECURSIVE SeriesSum(_)
SeriesSum(s) ==
    IF s = <<>> THEN Num(0)
    ELSE IF isna(Head(s)) THEN SeriesSum(Tail(s))
    ELSE Add(Head(s), SeriesSum(Tail(s)))

NotNa(s) == SelectSeq(s, LAMBDA x : ~isna(x))

\* Series.mean() / groupby "mean": skipna=True, NaN for no values
SeriesMean(s) == Div(SeriesSum(s), Num(Len(NotNa(s))))

\* the column `col` of a DataFrame, as a Series
Column(df, col) == [i \in 1..Len(df) |-> df[i][col]]

-----------------------------------------------------------------------------
(* Census API cells; pd.to_numeric(errors="coerce") *)

ApiCells ==
    {<<"null", 0>>, <<"str", SENTINEL>>} \cup {<<"str", i>> : i \in 0..MaxCount}

\* a JSON null becomes NaN; the text of an integer becomes that integer,
\* the negative "not available" codes included
to_numeric(cell) == IF cell[1] = "null" THEN NaN ELSE Num(cell[2])

-----------------------------------------------------------------------------
(* acs.py: fetch_acs_for_county (response -> DataFrame), compute_acs_features *)

\* numeric_cols of acs.py (the keys of ACS_VARS)
NumericCols ==
    {"median_rent", "median_income", "ttw_total",
     "ttw_lt5", "ttw_5_9", "ttw_10_14", "ttw_15_19", "ttw_20_24",
     "ttw_25_29", "ttw_30_34", "ttw_35_39", "ttw_40_44",
     "ttw_45_59", "ttw_60_89", "ttw_90_plus",
     "mode_total", "mode_car_alone", "mode_carpool", "mode_transit",
     "mode_walk", "mode_other", "mode_wfh",
     "rent_burden_total", "rent_burden_30_34", "rent_burden_35_39",
     "rent_burden_40_49", "rent_burden_50_plus",
     "tenure_total", "tenure_owner", "tenure_renter",
     "vehicles_total", "vehicles_none", "vehicles_1", "vehicles_2_plus"}

\* one response row -> one DataFrame row: GEOID, year, the numeric columns
\* through pd.to_numeric(errors="coerce")
AcsRow(api, year) ==
    [c \in NumericCols |-> to_numeric(api[c])]
        @@ [GEOID |-> api.GEOID, year |-> year]

AcsFrame(rows, year) == [i \in 1..Len(rows) |-> AcsRow(rows[i], year)]

\* features.loc[features[col] < 0, col] = pd.NA, for col in numeric_cols
NegativeToNa(r) ==
    [c \in DOMAIN r |->
        IF c \in NumericCols /\ Lt(r[c], Num(0)) THEN NaN ELSE r[c]]

\* rent / (income / 12.0) where income > 0 and rent > 0, pd.NA elsewhere
RentToIncome(f) ==
    IF Gt(f.median_income, Num(0)) /\ Gt(f.median_rent, Num(0))
    THEN Div(f.median_rent, Div(f.median_income, Num(12)))
    ELSE NaN

\* (numerator / total) * 100
Pct(numerator, total) == Mul(Div(numerator, total), Num(100))

\* weighted sum of the bucket midpoints / total_workers
CommuteMinProxy(f, total_workers) ==
    Div(Add(Add(Add(Add(Add(Add(Add(Add(Add(Add(Add(
        Mul(f.ttw_lt5, <<5, 2>>),
        Mul(f.ttw_5_9, Num(7))),
        Mul(f.ttw_10_14, Num(12))),
        Mul(f.ttw_15_19, Num(17))),
        Mul(f.ttw_20_24, Num(22))),
        Mul(f.ttw_25_29, Num(27))),
        Mul(f.ttw_30_34, Num(32))),
        Mul(f.ttw_35_39, Num(37))),
        Mul(f.ttw_40_44, Num(42))),
        Mul(f.ttw_45_59, Num(52))),
        Mul(f.ttw_60_89, Num(75))),
        Mul(f.ttw_90_plus, Num(100))),
        total_workers)

AcsFeaturesRow(r) ==
    LET f == NegativeToNa(r)
        total_workers == ReplaceZero(f.ttw_total)
        mode_total == ReplaceZero(f.mode_total)
        rent_burden_total == ReplaceZero(f.rent_burden_total)
        tenure_total == ReplaceZero(f.tenure_total)
        vehicles_total == ReplaceZero(f.vehicles_total)
        pct_commute_45_59 == Pct(f.ttw_45_59, total_workers)
        pct_commute_60_plus ==
            Pct(Add(f.ttw_60_89, f.ttw_90_plus), total_workers)
        pct_drive_alone == Pct(f.mode_car_alone, mode_total)
        pct_carpool == Pct(f.mode_carpool, mode_total)
    IN  f @@
        [rent_to_income |-> RentToIncome(f),
         pct_commute_lt10 |-> Pct(Add(f.ttw_lt5, f.ttw_5_9), total_workers),
         pct_commute_10_19 |->
             Pct(Add(f.ttw_10_14, f.ttw_15_19), total_workers),
         pct_commute_20_29 |->
             Pct(Add(f.ttw_20_24, f.ttw_25_29), total_workers),
         pct_commute_30_44 |->
             Pct(Add(Add(f.ttw_30_34, f.ttw_35_39), f.ttw_40_44),
                 total_workers),
         pct_commute_45_59 |-> pct_commute_45_59,
         pct_commute_60_plus |-> pct_commute_60_plus,
         long45_share |->
             Div(Add(pct_commute_45_59, pct_commute_60_plus), Num(100)),
         long60_share |-> Div(pct_commute_60_plus, Num(100)),
         commute_min_proxy |-> CommuteMinProxy(f, total_workers),
         pct_drive_alone |-> pct_drive_alone,
         pct_carpool |-> pct_carpool,
         pct_transit |-> Pct(f.mode_transit, mode_total),
         pct_walk |-> Pct(f.mode_walk, mode_total),
         pct_wfh |-> Pct(f.mode_wfh, mode_total),
         pct_car |-> Add(pct_drive_alone, pct_carpool),
         pct_rent_burden_30 |->
             Pct(Add(Add(Add(f.rent_burden_30_34, f.rent_burden_35_39),
                         f.rent_burden_40_49), f.rent_burden_50_plus),
                 rent_burden_total),
         pct_rent_burden_50 |-> Pct(f.rent_burden_50_plus, rent_burden_total),
         renter_share |-> Pct(f.tenure_renter, tenure_total),
         pct_no_vehicle |-> Pct(f.vehicles_none, vehicles_total),
         vehicle_access |->
             Pct(Add(f.vehicles_1, f.vehicles_2_plus), vehicles_total)]

compute_acs_features(acs_df) ==
    [i \in 1..Len(acs_df) |-> AcsFeaturesRow(acs_df[i])]

-----------------------------------------------------------------------------
(* demographics.py: fetch_demographics_for_county (response -> DataFrame), *)
(* compute_demographic_percentages                                         *)

DemoNumericCols ==
    {"total_pop", "hispanic", "white_nh", "black_nh", "asian_nh",
     "median_income"}

\* pd.to_numeric on numeric_cols, then other_nh = (total - the four
\* groups).clip(lower=0), then the year column
DemoRow(api, year) ==
    LET n == [c \in DemoNumericCols |-> to_numeric(api[c])]
    IN  n @@
        [GEOID |-> api.GEOID,
         year |-> year,
         other_nh |->
             ClipLower0(Sub(Sub(Sub(Sub(n.total_pop, n.hispanic),
                                    n.white_nh), n.black_nh), n.asian_nh))]

DemoFrame(rows, year) == [i \in 1..Len(rows) |-> DemoRow(rows[i], year)]

\* (count / total_pop * 100).fillna(0)
PctFillna(count, total_pop) == FillNa0(Mul(Div(count, total_pop), Num(100)))

DemoPctRow(r) ==
    r @@
    [pct_hispanic |-> PctFillna(r.hispanic, r.total_pop),
     pct_white |-> PctFillna(r.white_nh, r.total_pop),
     pct_black |-> PctFillna(r.black_nh, r.total_pop),
     pct_asian |-> PctFillna(r.asian_nh, r.total_pop),
     pct_other |-> PctFillna(r.other_nh, r.total_pop)]

compute_demographic_percentages(demographics_df) ==
    [i \in 1..Len(demographics_df) |-> DemoPctRow(demographics_df[i])]

-----------------------------------------------------------------------------
(* DataFrame helpers *)

RECURSIVE Concat(_)
Concat(ss) == IF ss = <<>> THEN <<>> ELSE Head(ss) \o Concat(Tail(ss))

\* left.merge(right, on=key, how="inner"): one row per matching pair of rows
MergeInner(left, right, key) ==
    Concat([i \in 1..Len(left) |->
        LET m == SelectSeq(right, LAMBDA r : r[key] = left[i][key])
        IN  [k \in 1..Len(m) |-> left[i] @@ m[k]]])

\* mutant: the deduplication is left out
DropDuplicates_Omitted(df) == df

\* DataFrame.drop_duplicates(): the first occurrence of each row is kept
RECURSIVE DropDuplicates(_)
DropDuplicates(df) ==
    IF df = <<>> THEN <<>>
    ELSE LET front == SubSeq(df, 1, Len(df) - 1)
             last == df[Len(df)]
         IN  IF \E j \in 1..Len(front) : front[j] = last
             THEN DropDuplicates(front)
             ELSE Append(DropDuplicates(front), last)

\* str.zfill(width) on a string of digits
Zfill(id, width) ==
    IF Len(id) >= width THEN id
    ELSE [i \in 1..(width - Len(id)) |-> 0] \o id

\* Python's order of two strings of digits
RECURSIVE StrLt(_, _)
StrLt(a, b) ==
    IF b = <<>> THEN FALSE
    ELSE IF a = <<>> THEN TRUE
    ELSE IF Head(a) # Head(b) THEN Head(a) < Head(b)
    ELSE StrLt(Tail(a), Tail(b))

\* the group keys of df.groupby(key), in sorted order
RECURSIVE SortedStrs(_)
SortedStrs(S) ==
    IF S = {} THEN <<>>
    ELSE LET m == CHOOSE x \in S : \A y \in S \ {x} : StrLt(x, y)
         IN  <<m>> \o SortedStrs(S \ {m})

GroupKeys(df, key) == SortedStrs({df[i][key] : i \in DOMAIN df})

Group(df, key, k) == SelectSeq(df, LAMBDA r : r[key] = k)

-----------------------------------------------------------------------------
(* spatial.py: tract_to_zcta_centroid_map *)

\* width of a ZCTA5CE key after str.zfill(5)
ZCTA_WIDTH == 5

\* mutant: a tract without a containing polygon is kept, under the first area
SJoinWithin_KeepUnmatched(tracts, zctas) ==
    Concat([i \in 1..Len(tracts) |->
        LET hit == SelectSeq(zctas,
                       LAMBDA z : tracts[i].centroid \in z.geometry)
        IN  IF hit = <<>> /\ zctas # <<>>
            THEN <<[GEOID |-> tracts[i].GEOID, ZCTA5CE |-> zctas[1].ZCTA5CE]>>
            ELSE [k \in 1..Len(hit) |->
                    [GEOID |-> tracts[i].GEOID, ZCTA5CE |-> hit[k].ZCTA5CE]]])

\* gpd.sjoin(tracts_with_centroids, zctas, how="inner", predicate="within"):
\* one row per (tract, ZCTA row) whose polygon contains the tract's centroid.
\* A tract row carries the centroid computed in the projected CRS; a polygon
\* is the set of locations in its interior.
SJoinWithin(tracts, zctas) ==
    Concat([i \in 1..Len(tracts) |->
        LET hit == SelectSeq(zctas,
                       LAMBDA z : tracts[i].centroid \in z.geometry)
        IN  [k \in 1..Len(hit) |->
                [GEOID |-> tracts[i].GEOID, ZCTA5CE |-> hit[k].ZCTA5CE]]])

tract_to_zcta_centroid_map(tracts, zctas) ==
    LET joined == SJoinWithin(tracts, zctas)
        tract_zcta_mapping == DropDuplicates(joined)
    IN  [i \in 1..Len(tract_zcta_mapping) |->
            [GEOID |-> tract_zcta_mapping[i].GEOID,
             ZCTA5CE |-> Zfill(tract_zcta_mapping[i].ZCTA5CE, ZCTA_WIDTH)]]

-----------------------------------------------------------------------------
(* demographics.py: aggregate_demographics_to_zcta *)

\* mutant: no guard on the weight sum
weighted_mean_Unguarded(group, value_col) ==
    LET weights == Column(group, "total_pop")
        values == Column(group, value_col)
    IN  Div(SeriesSum([i \in DOMAIN values |-> Mul(values[i], weights[i])]),
            SeriesSum(weights))

\* mutant: the weighted sum is divided by the number of members
weighted_mean_ByCount(group, value_col) ==
    LET weights == Column(group, "total_pop")
        values == Column(group, value_col)
    IN  IF Gt(SeriesSum(weights), Num(0))
        THEN Div(SeriesSum([i \in DOMAIN values |->
                                Mul(values[i], weights[i])]),
                 Num(Len(group)))
        ELSE Num(0)

\* (values * weights).sum() / weights.sum() if weights.sum() > 0 else 0
weighted_mean(group, value_col) ==
    LET weights == Column(group, "total_pop")
        values == Column(group, value_col)
    IN  IF Gt(SeriesSum(weights), Num(0))
        THEN Div(SeriesSum([i \in DOMAIN values |->
                                Mul(values[i], weights[i])]),
                 SeriesSum(weights))
        ELSE Num(0)

\* mutant: total_pop is averaged instead of summed
DemoZctaRow_MeanPop(key, group) ==
    [ZCTA5CE |-> key,
     total_pop |-> SeriesMean(Column(group, "total_pop")),
     pct_hispanic |-> weighted_mean(group, "pct_hispanic"),
     pct_white |-> weighted_mean(group, "pct_white"),
     pct_black |-> weighted_mean(group, "pct_black"),
     pct_asian |-> weighted_mean(group, "pct_asian"),
     pct_other |-> weighted_mean(group, "pct_other"),
     median_income |-> weighted_mean(group, "median_income")]

\* the pd.Series built for one group, with the group key (reset_index)
DemoZctaRow(key, group) ==
    [ZCTA5CE |-> key,
     total_pop |-> SeriesSum(Column(group, "total_pop")),
     pct_hispanic |-> weighted_mean(group, "pct_hispanic"),
     pct_white |-> weighted_mean(group, "pct_white"),
     pct_black |-> weighted_mean(group, "pct_black"),
     pct_asian |-> weighted_mean(group, "pct_asian"),
     pct_other |-> weighted_mean(group, "pct_other"),
     median_income |-> weighted_mean(group, "median_income")]

aggregate_demographics_to_zcta(demographics_df, mapping) ==
    LET demo_with_zcta == MergeInner(demographics_df, mapping, "GEOID")
        keys == GroupKeys(demo_with_zcta, "ZCTA5CE")
    IN  [i \in 1..Len(keys) |->
            DemoZctaRow(keys[i], Group(demo_with_zcta, "ZCTA5CE", keys[i]))]

-----------------------------------------------------------------------------
(* build.py: aggregation of the commute features to ZCTA level *)

\* the columns aggregated with "mean"
MeanCols ==
    {"rent_to_income", "commute_min_proxy",
     "pct_commute_lt10", "pct_commute_10_19", "pct_commute_20_29",
     "pct_commute_30_44", "pct_commute_45_59", "pct_commute_60_plus",
     "pct_drive_alone", "pct_carpool", "pct_transit", "pct_walk", "pct_wfh",
     "pct_car", "pct_rent_burden_30", "pct_rent_burden_50",
     "renter_share", "vehicle_access"}

\* one row of groupby("ZCTA5CE", as_index=False).agg({...})
CommuteZctaRow(key, group) ==
    [c \in MeanCols |-> SeriesMean(Column(group, c))]
        @@ [ZCTA5CE |-> key, ttw_total |-> SeriesSum(Column(group, "ttw_total"))]

\* acs_features.merge(tract_to_zcta_map, on="GEOID", how="inner")
\*     .groupby("ZCTA5CE", as_index=False).agg({...})
aggregate_commute_to_zcta(features, mapping) ==
    LET acs_with_zcta == MergeInner(features, mapping, "GEOID")
        keys == GroupKeys(acs_with_zcta, "ZCTA5CE")
    IN  [i \in 1..Len(keys) |->
            CommuteZctaRow(keys[i], Group(acs_with_zcta, "ZCTA5CE", keys[i]))]

-----------------------------------------------------------------------------
(* demographics.py: create_income_segments *)

RECURSIVE InsertSorted(_, _)
InsertSorted(x, s) ==
    IF s = <<>> THEN <<x>>
    ELSE IF Le(x, Head(s)) THEN <<x>> \o s
    ELSE <<Head(s)>> \o InsertSorted(x, Tail(s))

RECURSIVE SortValues(_)
SortValues(s) ==
    IF s = <<>> THEN <<>> ELSE InsertSorted(Head(s), SortValues(Tail(s)))

\* Series.quantile(q), 0 <= q <= 1: missing values are skipped, the result
\* is interpolated linearly between the two order statistics around
\* position (n - 1) * q, and is NaN when no value is present
quantile(s, q) ==
    LET sorted == SortValues(NotNa(s))
        n == Len(sorted)
        h == Mul(Num(n - 1), q)
        lo == h[1] \div h[2]
        frac == Sub(h, Num(lo))
    IN  IF n = 0 THEN NaN
        ELSE IF lo + 2 > n THEN sorted[lo + 1]
        ELSE Add(sorted[lo + 1],
                 Mul(Sub(sorted[lo + 2], sorted[lo + 1]), frac))

\* mutant: a tie with the lower cut point goes to the lower segment
assign_segment_LowerTie(income, q25, q75) ==
    IF isna(income) THEN "None"
    ELSE IF Le(income, q25) THEN "Low"
    ELSE IF Le(income, q75) THEN "Medium"
    ELSE "High"

\* assign_segment: None is what pd.Categorical turns into a missing label
assign_segment(income, q25, q75) ==
    IF isna(income) THEN "None"
    ELSE IF Lt(income, q25) THEN "Low"
    ELSE IF Le(income, q75) THEN "Medium"
    ELSE "High"

\* mutant: tercile cut points
create_income_segments_Terciles(zcta_df) ==
    LET q25 == quantile(Column(zcta_df, "median_income"), <<1, 3>>)
        q75 == quantile(Column(zcta_df, "median_income"), <<2, 3>>)
    IN  [i \in 1..Len(zcta_df) |->
            zcta_df[i] @@
            [income_segment |->
                assign_segment(zcta_df[i].median_income, q25, q75)]]

create_income_segments(zcta_df) ==
    LET q25 == quantile(Column(zcta_df, "median_income"), <<1, 4>>)
        q75 == quantile(Column(zcta_df, "median_income"), <<3, 4>>)
    IN  [i \in 1..Len(zcta_df) |->
            zcta_df[i] @@
            [income_segment |->
                assign_segment(zcta_df[i].median_income, q25, q75)]]

-----------------------------------------------------------------------------
(* tiger.py: get_state_zctas *)

\* records per request: 100 in the program; the model pages by 2 so that a
\* prefix with a second page fits in the enumerated server tables
MAX_RECORDS == 2

\* ZCTA5 LIKE 'prefix%'
IsPrefix(prefix, id) ==
    Len(prefix) <= Len(id) /\ SubSeq(id, 1, Len(prefix)) = prefix

\* the response to one paged query: the rows that match, from resultOffset,
\* at most resultRecordCount of them
QueryPage(server, prefix, offset) ==
    LET matching == SelectSeq(server, LAMBDA r : IsPrefix(prefix, r.ZCTA5))
        last == IF offset + MAX_RECORDS < Len(matching)
                THEN offset + MAX_RECORDS ELSE Len(matching)
    IN  SubSeq(matching, offset + 1, last)

\* exception classes a page request raises; all derive from Exception
\* (requests' HTTPError is none of the three named classes)
PageErrors == {"ConnectionError", "ValueError", "HTTPError"}

\* mutant: no catch-all clause
CaughtByPageHandlers_NoCatchAll(error) ==
    error \in {"ConnectionError", "TimeoutError", "ValueError"}

\* try: ... except ConnectionError / TimeoutError / ValueError / Exception
CaughtByPageHandlers(error) ==
    \/ error = "ConnectionError"
    \/ error = "TimeoutError"
    \/ error = "ValueError"
    \/ error \in PageErrors

\* one request of the while loop and what came back
PageEvent(prefix, offset, error, chunk) ==
    [where |-> "LIKE", prefix |-> prefix, offset |-> offset,
     count |-> MAX_RECORDS, error |-> error, chunk |-> chunk]

\* mutant: the loop also stops after a full page
PrefixPages_OnePage(server, errors, prefix, offset) ==
    IF <<prefix, offset>> \in DOMAIN errors
    THEN <<PageEvent(prefix, offset, errors[<<prefix, offset>>], <<>>)>>
    ELSE <<PageEvent(prefix, offset, "none",
                     QueryPage(server, prefix, offset))>>

\* the while loop of one prefix: its requests in order; the loop ends with
\* the first request that raises, is empty or is shorter than max_records
RECURSIVE PrefixPages(_, _, _, _)
PrefixPages(server, errors, prefix, offset) ==
    IF <<prefix, offset>> \in DOMAIN errors
    THEN <<PageEvent(prefix, offset, errors[<<prefix, offset>>], <<>>)>>
    ELSE LET chunk == QueryPage(server, prefix, offset)
         IN  IF chunk = <<>> \/ Len(chunk) < MAX_RECORDS
             THEN <<PageEvent(prefix, offset, "none", chunk)>>
             ELSE <<PageEvent(prefix, offset, "none", chunk)>>
                  \o PrefixPages(server, errors, prefix, offset + MAX_RECORDS)

\* the chunks one prefix appends to zcta_chunks
PrefixChunks(server, errors, prefix, offset) ==
    LET pages == SelectSeq(PrefixPages(server, errors, prefix, offset),
                           LAMBDA ev : ev.chunk # <<>>)
    IN  [k \in 1..Len(pages) |-> pages[k].chunk]

\* TRUE when the loop of a prefix ends with an exception no clause catches
PrefixRaises(server, errors, prefix) ==
    LET pages == PrefixPages(server, errors, prefix, 0)
        last == pages[Len(pages)]
    IN  last.error # "none" /\ ~CaughtByPageHandlers(last.error)

\* the request of a page event
RequestOf(ev) ==
    [where |-> ev.where, prefix |-> ev.prefix, offset |-> ev.offset,
     count |-> ev.count]

\* get_state_zctas(zip_prefixes): `default` is tiger.py's ZIP_PREFIXES;
\* `zip_prefixes or ZIP_PREFIXES` takes the default for None and for []
\* alike, both of which prefixes_arg = <<>> stands for
get_state_zctas(prefixes_arg, default, server, errors) ==
    LET prefixes == IF prefixes_arg # <<>> THEN prefixes_arg ELSE default
        unfiltered == [where |-> "1=1", prefix |-> <<>>, offset |-> 0,
                       count |-> MAX_RECORDS]
        \* the prefixes whose loop is entered: up to the first that raises
        entered == {k \in 1..Len(prefixes) :
                      \A j \in 1..(k - 1) :
                          ~PrefixRaises(server, errors, prefixes[j])}
        raised == IF prefixes = <<>>
                  THEN <<<<>>, 0>> \in DOMAIN errors
                  ELSE \E k \in entered :
                           PrefixRaises(server, errors, prefixes[k])
        zcta_data ==
            IF raised THEN <<>>
            ELSE IF prefixes = <<>>
            THEN SubSeq(server, 1,
                        IF MAX_RECORDS < Len(server)
                        THEN MAX_RECORDS ELSE Len(server))
            ELSE Concat(Concat([k \in 1..Len(prefixes) |->
                     PrefixChunks(server, errors, prefixes[k], 0)]))
        pages == Concat([k \in 1..Len(prefixes) |->
                     IF k \in entered
                     THEN PrefixPages(server, errors, prefixes[k], 0)
                     ELSE <<>>])
    IN  [raised |-> raised,
         requests |-> IF prefixes = <<>> THEN <<unfiltered>>
                      ELSE [i \in 1..Len(pages) |-> RequestOf(pages[i])],
         rows |-> [i \in 1..Len(zcta_data) |->
                     [ZCTA5CE |-> zcta_data[i].ZCTA5,
                      geometry |-> zcta_data[i].geometry]]]

-----------------------------------------------------------------------------
(* spatial.py: filter_zctas_in_cbsa *)

\* a polygon is the set of the unit cells it covers; its centroid is
\* represented by the least of them, its area by their number
Centroid(geometry) == CHOOSE c \in geometry : \A d \in geometry : c <= d

Area(geometry) == Cardinality(geometry)

\* zcta_gdf.loc[centroid.within(cbsa_boundary)]
filter_zctas_in_cbsa(zcta_gdf, cbsa) ==
    SelectSeq(zcta_gdf, LAMBDA z : z.geometry # {} /\ Centroid(z.geometry) \in cbsa)

-----------------------------------------------------------------------------
(* osm.py: zcta_transit_density *)

\* exception classes a query raises; all derive from Exception
QueryErrors == {"AttributeError", "InsufficientResponseError",
                "ConnectionError", "ValueError"}

\* try: ... except AttributeError: ... except Exception: ...
\* True when one of the two handlers takes the exception
CaughtByQueryHandlers(error) ==
    error = "AttributeError" \/ error \in QueryErrors

\* len(transit_features) after one guarded query: the features returned,
\* or the empty GeoDataFrame every handler substitutes
FeaturesOf(outcome) == IF outcome[1] = "features" THEN outcome[2] ELSE 0

\* mutant: a polygon whose public_transport query raised is left out
PolygonDensity_DropFailed(zcta_row, response) ==
    LET first == FeaturesOf(response.primary)
        stop_count == IF first = 0 THEN FeaturesOf(response.fallback)
                      ELSE first
        area_km2 == Area(zcta_row.geometry)
    IN  [raised |-> FALSE,
         rows |-> IF response.primary[1] = "raise" THEN <<>>
                  ELSE <<[ZCTA5CE |-> Zfill(zcta_row.ZCTA5CE, ZCTA_WIDTH),
                          stops_per_km2 |->
                              IF area_km2 > 0
                              THEN Div(Num(stop_count), Num(area_km2))
                              ELSE Num(0)]>>]

\* the body of the loop for one ZCTA row: whether an exception leaves the
\* function, and the rows appended to transit_densities
PolygonDensity(zcta_row, response) ==
    LET first == FeaturesOf(response.primary)
        stop_count == IF first = 0 THEN FeaturesOf(response.fallback)
                      ELSE first
        area_km2 == Area(zcta_row.geometry)
        escapes ==
            \/ (response.primary[1] = "raise"
                   /\ ~CaughtByQueryHandlers(response.primary[2]))
            \/ (first = 0
                   /\ response.fallback[1] = "raise"
                   /\ ~CaughtByQueryHandlers(response.fallback[2]))
    IN  [raised |-> escapes,
         rows |-> IF escapes THEN <<>>
                  ELSE <<[ZCTA5CE |-> Zfill(zcta_row.ZCTA5CE, ZCTA_WIDTH),
                          stops_per_km2 |->
                              IF area_km2 > 0
                              THEN Div(Num(stop_count), Num(area_km2))
                              ELSE Num(0)]>>]

\* pd.DataFrame(transit_densities) as `rows`, unless an exception left the
\* loop
zcta_transit_density(zcta_gdf, responses) ==
    LET per_row == [i \in 1..Len(zcta_gdf) |->
                       PolygonDensity(zcta_gdf[i], responses[i])]
        escapes == \E i \in DOMAIN per_row : per_row[i].raised
    IN  [raised |-> escapes,
         rows |-> IF escapes THEN <<>>
                  ELSE Concat([i \in DOMAIN per_row |-> per_row[i].rows])]

\* mutant: the bus-stop query is sent for every polygon
PolygonQueries_AlwaysFallback(i, response) ==
    <<[row |-> i, tags |-> "public_transport"],
      [row |-> i, tags |-> "highway=bus_stop"]>>

\* the Overpass queries of the loop body for the i-th row: the
\* public_transport query and, if transit_features.empty, the bus_stop query
PolygonQueries(i, response) ==
    <<[row |-> i, tags |-> "public_transport"]>> \o
    (IF /\ (response.primary[1] = "raise" =>
                CaughtByQueryHandlers(response.primary[2]))
        /\ FeaturesOf(response.primary) = 0
     THEN <<[row |-> i, tags |-> "highway=bus_stop"]>>
     ELSE <<>>)

\* the queries of the whole loop, which an escaping exception ends
TransitQueries(zcta_gdf, responses) ==
    LET stops_at == {i \in 1..Len(zcta_gdf) :
                        PolygonDensity(zcta_gdf[i], responses[i]).raised}
        last == IF stops_at = {} THEN Len(zcta_gdf)
                ELSE CHOOSE i \in stops_at : \A j \in stops_at : i <= j
    IN  Concat([i \in 1..last |-> PolygonQueries(i, responses[i])])

\* the columns of pd.DataFrame(transit_densities): those of the dicts in
\* the list, none for the empty list
TransitDensityColumns(transit) ==
    IF transit = <<>> THEN {} ELSE {"ZCTA5CE", "stops_per_km2"}

-----------------------------------------------------------------------------
(* zori.py: fetch_zori_latest.  The downloaded table is
   [columns |-> the names of the date columns in file order,
    rows |-> [RegionName, cells]] with one cell per date column; a column
   name YYYY-MM is the string of its six digits; a cell is <<"nan", 0>>
   (empty), <<"text", 0>> (not a number, such as 'MA') or <<"num", n>> *)

\* zori_data.melt(id_vars=["zip"], value_vars=date_cols, var_name="period",
\* value_name="zori") after zip = RegionName.astype(str).str.zfill(5): one
\* row per date column and table row, column by column
Melt(csv) ==
    Concat([c \in 1..Len(csv.columns) |->
        [i \in 1..Len(csv.rows) |->
            [zip |-> Zfill(csv.rows[i].RegionName, ZCTA_WIDTH),
             period |-> csv.columns[c],
             zori |-> csv.rows[i].cells[c]]]])

\* pd.to_numeric(zori, errors="coerce") on a cell that is not empty
zori_to_numeric(cell) == IF cell[1] = "num" THEN Num(cell[2]) ELSE NaN

\* dropna(subset=["zori"]), to_numeric, dropna(subset=["zori"])
NumericObservations(tidy) ==
    LET present == SelectSeq(tidy, LAMBDA r : r.zori[1] # "nan")
        numeric == [i \in 1..Len(present) |->
                       [present[i] EXCEPT !.zori = zori_to_numeric(@)]]
    IN  SelectSeq(numeric, LAMBDA r : r.zori # NaN)

\* the order of sort_values(["zip", "period"]): both columns are strings
ZoriLe(a, b) ==
    \/ StrLt(a.zip, b.zip)
    \/ (a.zip = b.zip /\ ~StrLt(b.period, a.period))

RECURSIVE InsertZori(_, _)
InsertZori(x, s) ==
    IF s = <<>> THEN <<x>>
    ELSE IF ZoriLe(Head(s), x) THEN <<Head(s)>> \o InsertZori(x, Tail(s))
    ELSE <<x>> \o s

\* sort_values(["zip", "period"])
RECURSIVE SortZori(_)
SortZori(df) ==
    IF df = <<>> THEN <<>>
    ELSE InsertZori(df[Len(df)], SortZori(SubSeq(df, 1, Len(df) - 1)))

\* mutant: the first row of each group is taken
GroupTail_First(df) ==
    SelectSeq([i \in 1..Len(df) |->
                  IF \A j \in 1..(i - 1) : df[j].zip # df[i].zip
                  THEN <<df[i]>> ELSE <<>>],
              LAMBDA x : x # <<>>)

\* groupby("zip", as_index=False).tail(1): the last row of each group, as a
\* sequence of one-row frames in the order of the frame
GroupTail(df) ==
    SelectSeq([i \in 1..Len(df) |->
                  IF \A j \in (i + 1)..Len(df) : df[j].zip # df[i].zip
                  THEN <<df[i]>> ELSE <<>>],
              LAMBDA x : x # <<>>)

fetch_zori_latest(csv) ==
    Concat(GroupTail(SortZori(NumericObservations(Melt(csv)))))

-----------------------------------------------------------------------------
(* build.py: merge / assembly (steps 5 to 7) *)

\* zori_data.rename(columns={"zip": "ZCTA5CE"}); ZCTA5CE.astype(str).zfill(5)
RenameZori(zori) ==
    [i \in 1..Len(zori) |->
        [ZCTA5CE |-> Zfill(zori[i].zip, ZCTA_WIDTH),
         period |-> zori[i].period, zori |-> zori[i].zori]]

\* zctas_area[["ZCTA5CE", "area_km2"]]
zcta_area_df(zctas) ==
    [i \in 1..Len(zctas) |->
        [ZCTA5CE |-> zctas[i].ZCTA5CE,
         area_km2 |-> Num(Area(zctas[i].geometry))]]

\* mutant: rows of the left table without a match are dropped
LeftMerge_Inner(left, right, key, cols) == MergeInner(left, right, key)

\* left.merge(right, on=key, how="left"): one row per matching pair, and
\* one row with the right columns `cols` missing for a left row without a
\* match
LeftMerge(left, right, key, cols) ==
    Concat([i \in 1..Len(left) |->
        LET m == SelectSeq(right, LAMBDA r : r[key] = left[i][key])
        IN  IF m = <<>> THEN <<left[i] @@ [c \in cols |-> NaN]>>
            ELSE [k \in 1..Len(m) |-> left[i] @@ m[k]]])

DemoZctaCols == {"total_pop", "pct_hispanic", "pct_white", "pct_black",
                 "pct_asian", "pct_other", "median_income"}

\* the four left merges, pop_density, and the drop of area_km2
merge_final_dataset(aggregated, demographics, zori, transit, area) ==
    LET merged ==
            LeftMerge(
                LeftMerge(
                    LeftMerge(
                        LeftMerge(aggregated, demographics, "ZCTA5CE",
                                  DemoZctaCols),
                        zori, "ZCTA5CE", {"period", "zori"}),
                    transit, "ZCTA5CE", {"stops_per_km2"}),
                area, "ZCTA5CE", {"area_km2"})
    IN  [i \in 1..Len(merged) |->
            [c \in DOMAIN merged[i] \ {"area_km2"} |-> merged[i][c]]
                @@ [pop_density |->
                       Div(merged[i].total_pop, merged[i].area_km2)]]

-----------------------------------------------------------------------------
(* config.py *)

METRO_CONFIGS ==
    [phoenix |->
        [cbsa_code |-> <<3, 8, 0, 6, 0>>,
         counties |-> <<<<"04", "013">>, <<"04", "021">>>>,
         zip_prefixes |-> <<<<8, 5>>>>,
         utm_zone |-> 32612],
     memphis |->
        [cbsa_code |-> <<3, 2, 8, 2, 0>>,
         counties |-> <<<<"47", "157">>, <<"47", "047">>, <<"05", "035">>,
                        <<"28", "033">>>>,
         zip_prefixes |-> <<<<3, 8>>, <<7, 2>>, <<3, 8, 6>>>>,
         utm_zone |-> 32616],
     los_angeles |->
        [cbsa_code |-> <<3, 1, 0, 8, 0>>,
         counties |-> <<<<"06", "037">>>>,
         zip_prefixes |-> <<<<9, 0>>, <<9, 1>>>>,
         utm_zone |-> 32611],
     dallas |->
        [cbsa_code |-> <<1, 9, 1, 0, 0>>,
         counties |-> <<<<"48", "113">>, <<"48", "121">>, <<"48", "257">>,
                        <<"48", "439">>>>,
         zip_prefixes |-> <<<<7, 5>>, <<7, 6>>>>,
         utm_zone |-> 32614],
     denver |->
        [cbsa_code |-> <<1, 9, 7, 4, 0>>,
         counties |-> <<<<"08", "001">>, <<"08", "005">>, <<"08", "013">>,
                        <<"08", "014">>, <<"08", "031">>, <<"08", "035">>,
                        <<"08", "039">>, <<"08", "059">>>>,
         zip_prefixes |-> <<<<8, 0>>, <<8, 1>>>>,
         utm_zone |-> 32613],
     atlanta |->
        [cbsa_code |-> <<1, 2, 0, 6, 0>>,
         counties |-> <<<<"13", "121">>, <<"13", "089">>, <<"13", "067">>,
                        <<"13", "063">>, <<"13", "045">>, <<"13", "135">>,
                        <<"13", "151">>, <<"13", "057">>>>,
         zip_prefixes |-> <<<<3, 0>>>>,
         utm_zone |-> 32616],
     chicago |->
        [cbsa_code |-> <<1, 6, 9, 8, 0>>,
         counties |-> <<<<"17", "031">>, <<"17", "043">>, <<"17", "089">>,
                        <<"17", "097">>, <<"17", "111">>, <<"17", "197">>>>,
         zip_prefixes |-> <<<<6, 0>>, <<6, 1>>, <<6, 2>>>>,
         utm_zone |-> 32616],
     seattle |->
        [cbsa_code |-> <<4, 2, 6, 6, 0>>,
         counties |-> <<<<"53", "033">>, <<"53", "053">>, <<"53", "061">>>>,
         zip_prefixes |-> <<<<9, 8>>>>,
         utm_zone |-> 32610],
     miami |->
        [cbsa_code |-> <<3, 3, 1, 0, 0>>,
         counties |-> <<<<"12", "086">>, <<"12", "011">>, <<"12", "099">>>>,
         zip_prefixes |-> <<<<3, 3>>>>,
         utm_zone |-> 32617]]

\* os.getenv("METRO", "phoenix")
GetenvMetro(env) == IF env = "unset" THEN "phoenix" ELSE env

\* the globals the module body of config.py binds (import or reload)
load_config(env) ==
    LET SELECTED_METRO == GetenvMetro(env)
        metro_config == IF SELECTED_METRO \in DOMAIN METRO_CONFIGS
                        THEN METRO_CONFIGS[SELECTED_METRO]
                        ELSE METRO_CONFIGS["phoenix"]
    IN  [SELECTED_METRO |-> SELECTED_METRO,
         CBSA_CODE |-> metro_config.cbsa_code,
         COUNTIES |-> metro_config.counties,
         ZIP_PREFIXES |-> metro_config.zip_prefixes,
         UTM_ZONE |-> metro_config.utm_zone,
         FINAL_ZCTA_OUT |-> <<"final_zcta_dataset", SELECTED_METRO>>]

-----------------------------------------------------------------------------
(* run_pipeline.py and the step sequence of build_final_dataset *)

\* main: all_metros
ALL_METROS == <<"phoenix", "memphis", "los_angeles", "dallas", "denver",
                "atlanta", "chicago", "seattle", "miami">>

\* the metros a batch of the model processes: the head of the list
AllMetros == SubSeq(ALL_METROS, 1, NumMetros)

\* the statements of build_final_dataset, in order
BuildSteps == <<"reload", "cbsa", "zctas", "tracts", "filter", "acs", "demo",
                "map", "aggregate", "zori", "transit", "area", "merge",
                "segment", "reorder", "write">>

StepAfter(step) ==
    LET i == CHOOSE k \in DOMAIN BuildSteps : BuildSteps[k] = step
    IN  IF i = Len(BuildSteps) THEN "return" ELSE BuildSteps[i + 1]

\* exceptions a step may raise; requests' HTTPError is an OSError
ErrorKinds == {"ValueError", "KeyError", "OSError", "RuntimeError"}

\* the except clauses of run_single_metro, in order
ErrorMessage(kind) ==
    IF kind \in {"ValueError", "KeyError"} THEN <<"Data validation error", kind>>
    ELSE IF kind = "OSError" THEN <<"File system error", kind>>
    ELSE <<"Unexpected error", kind>>

\* mutant: no catch-all clause
CaughtByRunSingleMetro_NoCatchAll(kind) ==
    kind \in {"ValueError", "KeyError", "OSError"}

\* run_single_metro's clauses cover every subclass of Exception
CaughtByRunSingleMetro(kind) ==
    \/ kind \in {"ValueError", "KeyError"}
    \/ kind = "OSError"
    \/ kind \in ErrorKinds

\* main: failed_metros
FailedMetros(res) == SelectSeq(res, LAMBDA r : ~r[2])

\* the configuration values a step reads and where it reads them:
\* `locals` are build_final_dataset's variables set after the reload,
\* spatial_utm is spatial.py's UTM_ZONE, tiger_prefixes tiger.py's
\* ZIP_PREFIXES
StepReads(step, locals, spatial_utm, tiger_prefixes) ==
    IF step = "cbsa" THEN {<<step, "cbsa_code", locals.CBSA_CODE>>}
    ELSE IF step = "zctas"
    THEN {<<step, "zip_prefixes",
            IF locals.ZIP_PREFIXES # <<>> THEN locals.ZIP_PREFIXES
            ELSE tiger_prefixes>>}
    ELSE IF step \in {"tracts", "acs", "demo"}
    THEN {<<step, "counties", locals.COUNTIES>>}
    ELSE IF step \in {"filter", "map"}
    THEN {<<step, "utm_zone", spatial_utm>>}
    ELSE IF step = "area" THEN {<<step, "utm_zone", locals.UTM_ZONE>>}
    ELSE IF step = "write"
    THEN {<<step, "output", locals.FINAL_ZCTA_OUT>>}
    ELSE {}

\* mutant: the dataset is also written right after the merge
WritesFinalCsv_Early(step) == step \in {"merge", "write"}

\* final_dataset.to_csv(FINAL_ZCTA_OUT, index=False)
WritesFinalCsv(step) == step = "write"

DebugMapPath == <<"debug", "tract_to_zcta_map">>

DebugZoriPath == <<"debug", "zori_tidy">>

\* the files after a step that completes
FilesAfter(step, locals, metro, fs) ==
    [path \in DOMAIN fs |->
        IF WritesFinalCsv(step) /\ path = locals.FINAL_ZCTA_OUT
        THEN <<"dataset", metro>>
        ELSE IF step = "map" /\ path = DebugMapPath THEN <<"debug", metro>>
        ELSE IF step = "zori" /\ path = DebugZoriPath THEN <<"debug", metro>>
        ELSE fs[path]]

\* the files after a step that raises: to_csv may leave a partial file
FilesAfterRaise(step, locals, fs) ==
    [path \in DOMAIN fs |->
        IF WritesFinalCsv(step) /\ path = locals.FINAL_ZCTA_OUT
        THEN <<"partial">>
        ELSE fs[path]]

-----------------------------------------------------------------------------
(* Steps of build_final_dataset on the tract tables (build.py steps 3, 3b) *)

\* acs_raw = pd.concat(fetch_acs_for_county(...) for each county)
FetchAcs ==
    /\ stage = "acs_api"
    /\ acs_raw' = AcsFrame(acs_api, DEFAULT_ACS_YEAR)
    /\ stage' = "acs_raw"
    /\ UNCHANGED <<acs_api, acs_features, demo_api, demo_raw, demo_with_pct, tracts_gdf,
                 zctas_gdf, tract_to_zcta_map, zcta_aggregated, zcta_demographics, final_dataset>>
    /\ UNCHANGED <<tigerVars, assemblyVars, runVars, callVars>>

\* acs_features = compute_acs_features(acs_raw)
ComputeAcsFeatures ==
    /\ stage = "acs_raw"
    /\ acs_features' = compute_acs_features(acs_raw)
    /\ stage' = "acs_features"
    /\ UNCHANGED <<acs_api, acs_raw, demo_api, demo_raw, demo_with_pct, tracts_gdf,
                 zctas_gdf, tract_to_zcta_map, zcta_aggregated, zcta_demographics, final_dataset>>
    /\ UNCHANGED <<tigerVars, assemblyVars, runVars, callVars>>

\* demo_raw = pd.concat(fetch_demographics_for_county(...) for each county)
FetchDemographics ==
    /\ stage = "demo_api"
    /\ demo_raw' = DemoFrame(demo_api, DEFAULT_DEMO_YEAR)
    /\ stage' = "demo_raw"
    /\ UNCHANGED <<acs_api, acs_raw, acs_features, demo_api, demo_with_pct, tracts_gdf,
                 zctas_gdf, tract_to_zcta_map, zcta_aggregated, zcta_demographics, final_dataset>>
    /\ UNCHANGED <<tigerVars, assemblyVars, runVars, callVars>>

\* demo_with_pct = compute_demographic_percentages(demo_raw)
ComputeDemographicPercentages ==
    /\ stage = "demo_raw"
    /\ demo_with_pct' = compute_demographic_percentages(demo_raw)
    /\ stage' = "demo_pct"
    /\ UNCHANGED <<acs_api, acs_raw, acs_features, demo_api, demo_raw, tracts_gdf,
                 zctas_gdf, tract_to_zcta_map, zcta_aggregated, zcta_demographics, final_dataset>>
    /\ UNCHANGED <<tigerVars, assemblyVars, runVars, callVars>>

\* logger.info(f"Mapping {len(tracts_in_counties)} tracts to
\*               {len(zctas_in_metro)} ZCTAs...")
LogMapping(tracts, zctas) ==
    [msg |-> "Mapping tracts to ZCTAs",
     tracts |-> Len(tracts), zctas |-> Len(zctas)]

\* logger.info(f"Fetched {len(zctas_all)} ZCTAs and {len(tracts_all)} tracts")
LogFetched(zctas, tracts) ==
    [msg |-> "Fetched ZCTAs and tracts",
     zctas |-> Len(zctas), tracts |-> Len(tracts)]

\* logger.info(f"Fetched ZORI data for {len(zori_data)} ZIP codes")
LogZori(zori) == [msg |-> "Fetched ZORI data", zips |-> Len(zori)]

\* logger.info(f"Computing transit density for {len(zctas_in_metro)} ZCTAs")
\* and, when the call returns,
\* logger.info(f"Computed transit density for {len(transit_density)} ZCTAs")
LogTransit(zctas, result) ==
    <<[msg |-> "Computing transit density", zctas |-> Len(zctas)]>> \o
    (IF result.raised THEN <<>>
     ELSE <<[msg |-> "Computed transit density",
             zctas |-> Len(result.rows)]>>)

\* logger.info(f"Aggregated {kind} data to {len(table)} ZCTAs")
LogAggregated(kind, table) ==
    [msg |-> "Aggregated data to ZCTAs", kind |-> kind, zctas |-> Len(table)]

\* tract_to_zcta_map = tract_to_zcta_centroid_map(tracts_in_counties,
\*                                                zctas_in_metro)
MapTracts ==
    /\ stage = "geoms"
    /\ build_log' = Append(build_log, LogMapping(tracts_gdf, zctas_gdf))
    /\ tract_to_zcta_map' = tract_to_zcta_centroid_map(tracts_gdf, zctas_gdf)
    /\ stage' = "mapped"
    /\ UNCHANGED <<acs_api, acs_raw, acs_features, demo_api, demo_raw, demo_with_pct,
                 tracts_gdf, zctas_gdf, zcta_aggregated, zcta_demographics, final_dataset>>
    /\ UNCHANGED <<zori_latest, zori_data, osm_responses, transit_density,
                   zori_csv, osm_queries>>
    /\ UNCHANGED <<tigerVars, runVars, callVars>>

\* zcta_demographics = aggregate_demographics_to_zcta(demo_with_pct,
\*                                                    tract_to_zcta_map)
AggregateDemographics ==
    /\ stage = "demo_pct"
    /\ zcta_demographics' =
           aggregate_demographics_to_zcta(demo_with_pct, tract_to_zcta_map)
    /\ stage' = "demo_zcta"
    /\ UNCHANGED <<acs_api, acs_raw, acs_features, demo_api, demo_raw, demo_with_pct,
                 tracts_gdf, zctas_gdf, tract_to_zcta_map, zcta_aggregated, final_dataset>>
    /\ UNCHANGED <<tigerVars, assemblyVars, runVars, callVars>>

\* zcta_aggregated = acs_with_zcta.groupby("ZCTA5CE", as_index=False).agg(...)
AggregateCommute ==
    /\ stage = "acs_features"
    /\ zcta_aggregated' =
           aggregate_commute_to_zcta(acs_features, tract_to_zcta_map)
    /\ stage' = "acs_zcta"
    /\ UNCHANGED <<acs_api, acs_raw, acs_features, demo_api, demo_raw,
                   demo_with_pct, tracts_gdf, zctas_gdf, tract_to_zcta_map,
                   zcta_demographics, final_dataset>>
    /\ UNCHANGED <<tigerVars, assemblyVars, runVars, callVars>>

\* final_dataset = create_income_segments(final_dataset)
CreateIncomeSegments ==
    /\ stage = "merged"
    /\ final_dataset' = create_income_segments(final_dataset)
    /\ stage' = "segmented"
    /\ UNCHANGED <<acs_api, acs_raw, acs_features, demo_api, demo_raw,
                   demo_with_pct, tracts_gdf, zctas_gdf, tract_to_zcta_map,
                   zcta_aggregated, zcta_demographics>>
    /\ UNCHANGED <<tigerVars, assemblyVars, runVars, callVars>>

\* zctas_all = get_state_zctas(ZIP_PREFIXES)
GetStateZctas ==
    /\ stage = "tiger"
    /\ LET result == get_state_zctas(zip_prefixes, tiger_ZIP_PREFIXES,
                                     tiger_server, tiger_errors)
       IN  /\ zctas_gdf' = result.rows
           /\ tiger_requests' = result.requests
           /\ stage' = IF result.raised THEN "failed" ELSE "zctas"
    /\ UNCHANGED <<acs_api, acs_raw, acs_features, demo_api, demo_raw,
                   demo_with_pct, tracts_gdf, tract_to_zcta_map,
                   zcta_aggregated, zcta_demographics, final_dataset>>
    /\ UNCHANGED <<tiger_server, tiger_errors, zip_prefixes,
                   zip_prefixes_is_none, tiger_ZIP_PREFIXES, cbsa_boundary>>
    /\ UNCHANGED <<assemblyVars, runVars, callVars>>

\* zctas_in_metro = filter_zctas_in_cbsa(zctas_all, cbsa_boundary)
FilterZctas ==
    /\ stage = "zctas"
    /\ build_log' = Append(build_log, LogFetched(zctas_gdf, tracts_gdf))
    /\ zctas_gdf' = filter_zctas_in_cbsa(zctas_gdf, cbsa_boundary)
    /\ stage' = "geoms"
    /\ UNCHANGED <<acs_api, acs_raw, acs_features, demo_api, demo_raw,
                   demo_with_pct, tracts_gdf, tract_to_zcta_map,
                   zcta_aggregated, zcta_demographics, final_dataset>>
    /\ UNCHANGED <<zori_latest, zori_data, osm_responses, transit_density,
                   zori_csv, osm_queries>>
    /\ UNCHANGED <<tigerVars, runVars, callVars>>

\* build.py after the mapping: both aggregations to ZCTA level
AggregateToZcta ==
    /\ stage = "mapped"
    /\ zcta_aggregated' =
           aggregate_commute_to_zcta(acs_features, tract_to_zcta_map)
    /\ zcta_demographics' =
           aggregate_demographics_to_zcta(demo_with_pct, tract_to_zcta_map)
    /\ build_log' = build_log \o
           <<LogAggregated("commute", zcta_aggregated'),
             LogAggregated("demographic", zcta_demographics')>>
    /\ stage' = "aggregated"
    /\ UNCHANGED <<acs_api, acs_raw, acs_features, demo_api, demo_raw,
                   demo_with_pct, tracts_gdf, zctas_gdf, tract_to_zcta_map,
                   final_dataset>>
    /\ UNCHANGED <<zori_latest, zori_data, osm_responses, transit_density,
                   zori_csv, osm_queries>>
    /\ UNCHANGED <<tigerVars, runVars, callVars>>

\* step 5: the call fetch_zori_latest(ZORI_ZIP_CSV_URL) returns
FetchZoriLatest ==
    /\ stage = "zori_csv"
    /\ zori_latest' = fetch_zori_latest(zori_csv)
    /\ stage' = "aggregated"
    /\ UNCHANGED <<zori_data, osm_responses, transit_density, zori_csv,
                   osm_queries, build_log>>
    /\ UNCHANGED <<tableVars, tigerVars, runVars, callVars>>

\* step 5: zori_data = fetch_zori_latest(...), renamed and zero-padded
FetchZori ==
    /\ stage = "aggregated"
    /\ zori_data' = RenameZori(zori_latest)
    /\ build_log' = Append(build_log, LogZori(zori_data'))
    /\ stage' = "zori"
    /\ UNCHANGED <<zori_latest, osm_responses, transit_density, zori_csv,
                   osm_queries>>
    /\ UNCHANGED <<tableVars, tigerVars, runVars, callVars>>

\* step 6: transit_density = zcta_transit_density(zctas_for_transit, "", "")
ComputeTransitDensity ==
    /\ stage = "zori"
    /\ LET result == zcta_transit_density(zctas_gdf, osm_responses)
       IN  /\ transit_density' = result.rows
           /\ build_log' = build_log \o LogTransit(zctas_gdf, result)
           /\ stage' = IF result.raised THEN "failed" ELSE "transit"
    /\ osm_queries' = TransitQueries(zctas_gdf, osm_responses)
    /\ UNCHANGED <<zori_latest, zori_data, osm_responses, zori_csv>>
    /\ UNCHANGED <<tableVars, tigerVars, runVars, callVars>>

\* steps 6b and 7: the area table, the merges and pop_density; merging on
\* a key the right table does not have raises KeyError
MergeFinalDataset ==
    /\ stage = "transit"
    /\ IF "ZCTA5CE" \in TransitDensityColumns(transit_density)
       THEN /\ final_dataset' =
                  merge_final_dataset(zcta_aggregated, zcta_demographics,
                                      zori_data, transit_density,
                                      zcta_area_df(zctas_gdf))
            /\ stage' = "merged"
       ELSE /\ final_dataset' = final_dataset
            /\ stage' = "failed"
    /\ UNCHANGED <<acs_api, acs_raw, acs_features, demo_api, demo_raw,
                   demo_with_pct, tracts_gdf, zctas_gdf, tract_to_zcta_map,
                   zcta_aggregated, zcta_demographics>>
    /\ UNCHANGED <<tigerVars, assemblyVars, runVars, callVars>>

-----------------------------------------------------------------------------
(* Feature derivation on one tract record: SpecFeat *)

\* the columns of one ratio family vary over ApiCells, the others hold "1"
AcsInputFamilies ==
    {{"median_rent", "median_income"},
     {"ttw_total", "ttw_45_59", "ttw_60_89", "ttw_90_plus"},
     {"mode_total", "mode_car_alone", "mode_carpool"},
     {"rent_burden_total", "rent_burden_30_34", "rent_burden_50_plus"},
     {"tenure_total", "tenure_renter"},
     {"vehicles_total", "vehicles_none", "vehicles_1", "vehicles_2_plus"}}

AcsApiRow(geoid, family, cells) ==
    [c \in NumericCols |-> IF c \in family THEN cells[c] ELSE <<"str", 1>>]
        @@ [GEOID |-> geoid]

DemoApiRow(geoid, cells) == cells @@ [GEOID |-> geoid]

InitFeatAcs ==
    /\ TigerIdle /\ AssemblyIdle /\ RunIdle /\ CallIdle
    /\ stage = "acs_api"
    /\ \E family \in AcsInputFamilies :
         \E cells \in [family -> ApiCells] :
           acs_api = <<AcsApiRow(1, family, cells)>>
    /\ acs_raw = <<>>
    /\ acs_features = <<>>
    /\ demo_api = <<>>
    /\ demo_raw = <<>>
    /\ demo_with_pct = <<>>
    /\ tracts_gdf = <<>>
    /\ zctas_gdf = <<>>
    /\ tract_to_zcta_map = <<>>
    /\ zcta_aggregated = <<>>
    /\ zcta_demographics = <<>>
    /\ final_dataset = <<>>

InitFeatDemo ==
    /\ TigerIdle /\ AssemblyIdle /\ RunIdle /\ CallIdle
    /\ stage = "demo_api"
    /\ \E cells \in [DemoNumericCols -> ApiCells] :
         demo_api = <<DemoApiRow(1, cells)>>
    /\ acs_api = <<>>
    /\ acs_raw = <<>>
    /\ acs_features = <<>>
    /\ demo_raw = <<>>
    /\ demo_with_pct = <<>>
    /\ tracts_gdf = <<>>
    /\ zctas_gdf = <<>>
    /\ tract_to_zcta_map = <<>>
    /\ zcta_aggregated = <<>>
    /\ zcta_demographics = <<>>
    /\ final_dataset = <<>>

InitFeat == InitFeatAcs \/ InitFeatDemo

NextFeat ==
    \/ FetchAcs
    \/ ComputeAcsFeatures
    \/ FetchDemographics
    \/ ComputeDemographicPercentages

SpecFeat == InitFeat /\ [][NextFeat]_vars

-----------------------------------------------------------------------------
(* Claims on feature derivation *)

\* the universe (denominator) column of each derived ratio
AcsDenominator ==
    [rent_to_income |-> "median_income",
     pct_commute_lt10 |-> "ttw_total",
     pct_commute_10_19 |-> "ttw_total",
     pct_commute_20_29 |-> "ttw_total",
     pct_commute_30_44 |-> "ttw_total",
     pct_commute_45_59 |-> "ttw_total",
     pct_commute_60_plus |-> "ttw_total",
     long45_share |-> "ttw_total",
     long60_share |-> "ttw_total",
     commute_min_proxy |-> "ttw_total",
     pct_drive_alone |-> "mode_total",
     pct_carpool |-> "mode_total",
     pct_transit |-> "mode_total",
     pct_walk |-> "mode_total",
     pct_wfh |-> "mode_total",
     pct_car |-> "mode_total",
     pct_rent_burden_30 |-> "rent_burden_total",
     pct_rent_burden_50 |-> "rent_burden_total",
     renter_share |-> "tenure_total",
     pct_no_vehicle |-> "vehicles_total",
     vehicle_access |-> "vehicles_total"]

DemoPctCols ==
    {"pct_hispanic", "pct_white", "pct_black", "pct_asian", "pct_other"}

\* a denominator that is missing or <= 0 (a negative code included)
NoDenominator(den) == isna(den) \/ Le(den, Num(0))

\* the ratios of compute_acs_features are missing when the denominator is
\* missing or <= 0
AcsRatiosMissingWithoutDenominator ==
    \A i \in DOMAIN acs_features :
      \A c \in DOMAIN AcsDenominator :
        NoDenominator(acs_raw[i][AcsDenominator[c]])
            => isna(acs_features[i][c])

\* the percentages of compute_demographic_percentages are missing when
\* total_pop is missing or <= 0
DemoPctMissingWithoutDenominator ==
    \A i \in DOMAIN demo_with_pct :
      \A c \in DemoPctCols :
        NoDenominator(demo_raw[i].total_pop) => isna(demo_with_pct[i][c])

\* C3: every ratio or percentage derived by compute_acs_features and by
\* compute_demographic_percentages is missing whenever its denominator count
\* is missing or <= 0 (never 0, never infinite, never a quotient by a
\* negative code).
C3_RatioMissingWithoutDenominator ==
    /\ AcsRatiosMissingWithoutDenominator
    /\ DemoPctMissingWithoutDenominator

-----------------------------------------------------------------------------
(* The centroid mapping on enumerated geometries: SpecMap *)

Points == 1..NumPoints

\* ZCTA5 values of the boundary service: two areas, and "501" / "00501",
\* which str.zfill(5) makes the same key
RawZctaIds == {<<8, 5, 0, 0, 1>>, <<5, 0, 1>>, <<0, 0, 5, 0, 1>>}

ZctaRows ==
    {[ZCTA5CE |-> id, geometry |-> g] :
        id \in RawZctaIds, g \in (SUBSET Points) \ {{}}}

SeqsUpTo(S, n) == UNION {[1..k -> S] : k \in 0..n}

InitMap ==
    /\ TigerIdle /\ AssemblyIdle /\ RunIdle /\ CallIdle
    /\ stage = "geoms"
    /\ \E c \in [1..NumTracts -> Points] :
         tracts_gdf = [t \in 1..NumTracts |-> [GEOID |-> t, centroid |-> c[t]]]
    /\ zctas_gdf \in SeqsUpTo(ZctaRows, MaxZctaRows)
    /\ acs_api = <<>>
    /\ acs_raw = <<>>
    /\ acs_features = <<>>
    /\ demo_api = <<>>
    /\ demo_raw = <<>>
    /\ demo_with_pct = <<>>
    /\ tract_to_zcta_map = <<>>
    /\ zcta_aggregated = <<>>
    /\ zcta_demographics = <<>>
    /\ final_dataset = <<>>

NextMap == MapTracts

SpecMap == InitMap /\ [][NextMap]_vars

\* no GEOID in two rows with different ZCTA5CE, and no row twice
MappingIsFunction ==
    \A i, j \in DOMAIN tract_to_zcta_map :
        i # j => tract_to_zcta_map[i].GEOID # tract_to_zcta_map[j].GEOID

\* C5 as stated: for any tract and reporting-area inputs the returned
\* relation is a function (no GEOID with two ZCTA5CE, no pair twice).
C5_MappingIsFunctionAnyInput == stage = "mapped" => MappingIsFunction

\* rows of the ZCTA table whose polygons share a location carry the same
\* identifier (polygons of different areas do not overlap)
AreasDoNotOverlap ==
    \A i, j \in DOMAIN zctas_gdf :
        zctas_gdf[i].geometry \cap zctas_gdf[j].geometry # {}
            => zctas_gdf[i].ZCTA5CE = zctas_gdf[j].ZCTA5CE

\* C5 amended: when the polygons of rows with different identifiers do not
\* overlap, the returned relation is a function: no GEOID appears in two
\* rows (neither with two ZCTA5CE nor with the same pair twice).
C5_MappingIsFunction ==
    (stage = "mapped" /\ AreasDoNotOverlap) => MappingIsFunction

\* a tract whose centroid lies in two rows of the ZCTA table (the same area
\* fetched twice) and is mapped
C5_Witness ==
    /\ stage = "mapped"
    /\ AreasDoNotOverlap
    /\ \E t \in DOMAIN tracts_gdf :
         /\ \E i, j \in DOMAIN zctas_gdf :
              /\ i # j
              /\ tracts_gdf[t].centroid \in zctas_gdf[i].geometry
              /\ tracts_gdf[t].centroid \in zctas_gdf[j].geometry
         /\ \E k \in DOMAIN tract_to_zcta_map :
              tract_to_zcta_map[k].GEOID = tracts_gdf[t].GEOID

-----------------------------------------------------------------------------
(* The demographic path on enumerated tracts and mappings: SpecDemo *)

\* ZCTA5CE keys of a mapping (after zfill)
Areas == {<<8, 5, 0, 0, 1>>, <<8, 5, 0, 0, 2>>}

DemoPopCells == {<<"str", 0>>, <<"str", 1>>, <<"str", 3>>}

DemoIncomeCells ==
    {<<"null", 0>>, <<"str", SENTINEL>>, <<"str", 2>>, <<"str", 4>>}

\* a tract whose residents are all "white alone, not Hispanic"
DemoTractApiRow(geoid, pop, income) ==
    [GEOID |-> geoid, total_pop |-> pop, hispanic |-> <<"str", 0>>,
     white_nh |-> pop, black_nh |-> <<"str", 0>>, asian_nh |-> <<"str", 0>>,
     median_income |-> income]

\* the rows [GEOID, ZCTA5CE] of a mapping that sends tract t to the areas
\* assign[t] (none, one, or several)
MappingRows(assign) ==
    Concat([t \in DOMAIN assign |->
        LET zs == SortedStrs(assign[t])
        IN  [k \in 1..Len(zs) |-> [GEOID |-> t, ZCTA5CE |-> zs[k]]]])

InitDemo ==
    /\ TigerIdle /\ AssemblyIdle /\ RunIdle /\ CallIdle
    /\ stage = "demo_api"
    /\ \E pop \in [1..NumTracts -> DemoPopCells] :
         \E income \in [1..NumTracts -> DemoIncomeCells] :
           demo_api = [t \in 1..NumTracts |->
                          DemoTractApiRow(t, pop[t], income[t])]
    /\ \E assign \in [1..NumTracts -> SUBSET Areas] :
         tract_to_zcta_map = MappingRows(assign)
    /\ acs_api = <<>>
    /\ acs_raw = <<>>
    /\ acs_features = <<>>
    /\ demo_raw = <<>>
    /\ demo_with_pct = <<>>
    /\ tracts_gdf = <<>>
    /\ zctas_gdf = <<>>
    /\ zcta_aggregated = <<>>
    /\ zcta_demographics = <<>>
    /\ final_dataset = <<>>

NextDemo ==
    \/ FetchDemographics
    \/ ComputeDemographicPercentages
    \/ AggregateDemographics

SpecDemo == InitDemo /\ [][NextDemo]_vars

-----------------------------------------------------------------------------
(* Claims on the demographic aggregation *)

\* the tracts the mapping assigns to area z
MappedTracts(z) ==
    {tract_to_zcta_map[k].GEOID :
        k \in {j \in DOMAIN tract_to_zcta_map :
                  tract_to_zcta_map[j].ZCTA5CE = z}}

\* the row of tract g in a tract table
TractRow(df, g) == df[CHOOSE i \in DOMAIN df : df[i].GEOID = g]

\* sum of f[t] over the tracts t of S, a missing f[t] adding nothing
RECURSIVE SumOver(_, _)
SumOver(S, f) ==
    IF S = {} THEN Num(0)
    ELSE LET t == CHOOSE x \in S : TRUE
         IN  Add(FillNa0(f[t]), SumOver(S \ {t}, f))

\* population of each tract of the demographic table
TractPop == [g \in {demo_with_pct[i].GEOID : i \in DOMAIN demo_with_pct} |->
                TractRow(demo_with_pct, g).total_pop]

ValueCols ==
    {"pct_hispanic", "pct_white", "pct_black", "pct_asian", "pct_other",
     "median_income"}

ZctaRowsOf(df, z) == {i \in DOMAIN df : df[i].ZCTA5CE = z}

\* C4: each area the mapping assigns a tract to has exactly one row in the
\* result of aggregate_demographics_to_zcta, whose total_pop is the sum of
\* total_pop over exactly the tracts mapped to it (each once; a missing
\* total_pop adds nothing); an area without mapped tracts has no row.
C4_TotalPopIsSumOfMappedTracts ==
    stage = "demo_zcta" =>
        \A z \in Areas :
            IF MappedTracts(z) = {}
            THEN ZctaRowsOf(zcta_demographics, z) = {}
            ELSE /\ Cardinality(ZctaRowsOf(zcta_demographics, z)) = 1
                 /\ \A i \in ZctaRowsOf(zcta_demographics, z) :
                      zcta_demographics[i].total_pop
                          = SumOver(MappedTracts(z), TractPop)

\* an area with two mapped tracts of positive population, one of them also
\* mapped to the other area
C4_Witness ==
    /\ stage = "demo_zcta"
    /\ \E z \in Areas : \E t, u \in MappedTracts(z) :
         /\ t # u
         /\ Gt(TractPop[t], Num(0))
         /\ Gt(TractPop[u], Num(0))
         /\ \E y \in Areas \ {z} : t \in MappedTracts(y)

\* C7: a group whose population weights sum to 0 gets exactly 0 in every
\* value column.
C7_ZeroWeightSumGivesZero ==
    stage = "demo_zcta" =>
        \A i \in DOMAIN zcta_demographics :
            SumOver(MappedTracts(zcta_demographics[i].ZCTA5CE), TractPop)
                    = Num(0)
                => \A c \in ValueCols : zcta_demographics[i][c] = Num(0)

\* a group of tracts of population 0, one with a positive median income
C7_Witness ==
    /\ stage = "demo_zcta"
    /\ \E i \in DOMAIN zcta_demographics :
         LET M == MappedTracts(zcta_demographics[i].ZCTA5CE)
         IN  /\ \A t \in M : TractPop[t] = Num(0)
             /\ \E t \in M :
                  Gt(TractRow(demo_with_pct, t).median_income, Num(0))

\* C8 as stated: for a group of a single tract the weighted mean of every
\* value column equals the tract's value, for every (present) value and
\* every (present) population of the tract.
C8_SingleTractAnyPopulation ==
    stage = "demo_zcta" =>
        \A i \in DOMAIN zcta_demographics :
          \A t \in MappedTracts(zcta_demographics[i].ZCTA5CE) :
            (/\ MappedTracts(zcta_demographics[i].ZCTA5CE) = {t}
             /\ ~isna(TractPop[t]))
                => \A c \in ValueCols :
                     ~isna(TractRow(demo_with_pct, t)[c])
                         => zcta_demographics[i][c]
                                = TractRow(demo_with_pct, t)[c]

\* C8 amended: for a group of a single tract with a positive population, the
\* weighted mean of every value column whose value is not missing equals
\* the tract's value.
C8_SingleTractPositivePopulation ==
    stage = "demo_zcta" =>
        \A i \in DOMAIN zcta_demographics :
          \A t \in MappedTracts(zcta_demographics[i].ZCTA5CE) :
            (/\ MappedTracts(zcta_demographics[i].ZCTA5CE) = {t}
             /\ Gt(TractPop[t], Num(0)))
                => \A c \in ValueCols :
                     ~isna(TractRow(demo_with_pct, t)[c])
                         => zcta_demographics[i][c]
                                = TractRow(demo_with_pct, t)[c]

\* a single-tract group of population 3 and a positive median income
C8_Witness ==
    /\ stage = "demo_zcta"
    /\ \E i \in DOMAIN zcta_demographics :
         \E t \in MappedTracts(zcta_demographics[i].ZCTA5CE) :
           /\ MappedTracts(zcta_demographics[i].ZCTA5CE) = {t}
           /\ TractPop[t] = Num(3)
           /\ Gt(TractRow(demo_with_pct, t).median_income, Num(0))
           /\ zcta_demographics[i].median_income
                  = TractRow(demo_with_pct, t).median_income

\* the weighted mean of column c over the tracts of S whose value is not
\* missing (0 when their weights sum to 0)
MeanOverPresent(S, c) ==
    LET P == {t \in S : ~isna(TractRow(demo_with_pct, t)[c])}
        w == SumOver(P, TractPop)
        vw == [t \in P |-> Mul(TractRow(demo_with_pct, t)[c], TractPop[t])]
    IN  IF Gt(w, Num(0)) THEN Div(SumOver(P, vw), w) ELSE Num(0)

\* C6: a member whose value is missing is left out of the numerator and of
\* the denominator: each value column of a group equals the weighted mean
\* over its members with non-missing values (stated for groups whose
\* populations are present and whose present values are not negative).
C6_MissingValueOmittedWithItsWeight ==
    stage = "demo_zcta" =>
        \A i \in DOMAIN zcta_demographics :
          LET M == MappedTracts(zcta_demographics[i].ZCTA5CE)
          IN  \A c \in ValueCols :
                (\A t \in M :
                    /\ ~isna(TractPop[t])
                    /\ ~Lt(TractRow(demo_with_pct, t)[c], Num(0)))
                    => zcta_demographics[i][c] = MeanOverPresent(M, c)

\* C2: an area whose only mapped tract has the missing code in its income
\* field gets a missing median_income, never a negative number (stated for
\* a tract of positive population).
C2_SentinelIncomeAggregatesToMissing ==
    stage = "demo_zcta" =>
        \A i \in DOMAIN zcta_demographics :
          \A t \in MappedTracts(zcta_demographics[i].ZCTA5CE) :
            (/\ MappedTracts(zcta_demographics[i].ZCTA5CE) = {t}
             /\ TractRow(demo_api, t).median_income = <<"str", SENTINEL>>
             /\ Gt(TractPop[t], Num(0)))
                => isna(zcta_demographics[i].median_income)

-----------------------------------------------------------------------------
(* The commute path on enumerated tracts and mappings: SpecAcs *)

\* median household incomes that give rent-to-income 0.5, 0.4, 0.3 for a
\* median gross rent of 1000
AcsIncomeCells == {<<"str", 24000>>, <<"str", 30000>>, <<"str", 40000>>}

AcsPopCells == {<<"str", 50>>, <<"str", 100>>, <<"str", 300>>}

AcsTractApiRow(geoid, income) ==
    [c \in NumericCols |->
        IF c = "median_income" THEN income
        ELSE IF c = "median_rent" THEN <<"str", 1000>>
        ELSE <<"str", 1>>]
        @@ [GEOID |-> geoid]

InitAcs ==
    /\ TigerIdle /\ AssemblyIdle /\ RunIdle /\ CallIdle
    /\ stage = "acs_api"
    /\ \E income \in [1..NumAcsTracts -> AcsIncomeCells] :
         acs_api = [t \in 1..NumAcsTracts |-> AcsTractApiRow(t, income[t])]
    /\ \E pop \in [1..NumAcsTracts -> AcsPopCells] :
         demo_api = [t \in 1..NumAcsTracts |->
                        DemoTractApiRow(t, pop[t], <<"null", 0>>)]
    /\ \E assign \in [1..NumAcsTracts -> {{}} \cup {{z} : z \in Areas}] :
         tract_to_zcta_map = MappingRows(assign)
    /\ acs_raw = <<>>
    /\ acs_features = <<>>
    /\ demo_raw = <<>>
    /\ demo_with_pct = <<>>
    /\ tracts_gdf = <<>>
    /\ zctas_gdf = <<>>
    /\ zcta_aggregated = <<>>
    /\ zcta_demographics = <<>>
    /\ final_dataset = <<>>

NextAcs ==
    \/ FetchAcs
    \/ ComputeAcsFeatures
    \/ AggregateCommute

SpecAcs == InitAcs /\ [][NextAcs]_vars

-----------------------------------------------------------------------------
(* Claims on the commute aggregation *)

\* population of each tract, as the demographics response gives it
ApiPop == [g \in {demo_api[i].GEOID : i \in DOMAIN demo_api} |->
              to_numeric(TractRow(demo_api, g).total_pop)]

\* sum(value_i * population_i) / sum(population_i) over the tracts of S
PopWeightedMean(S, c) ==
    Div(SumOver(S, [t \in S |-> Mul(TractRow(acs_features, t)[c], ApiPop[t])]),
        SumOver(S, ApiPop))

\* every rate column of every area is the population-weighted mean
RatesArePopulationWeighted ==
    stage = "acs_zcta" =>
        \A i \in DOMAIN zcta_aggregated :
          \A c \in MeanCols :
            zcta_aggregated[i][c]
                = PopWeightedMean(MappedTracts(zcta_aggregated[i].ZCTA5CE), c)

\* Scenario A: tracts 1 and 2 (populations 100 and 300, rent-to-income 0.3
\* and 0.5) in area 85001, tract 3 (50, 0.4) in area 85002
ScenarioA ==
    /\ stage = "acs_zcta"
    /\ Len(acs_features) = 3
    /\ \A t \in 1..3 : acs_features[t].GEOID = t
    /\ acs_features[1].rent_to_income = <<3, 10>>
    /\ acs_features[2].rent_to_income = <<1, 2>>
    /\ acs_features[3].rent_to_income = <<2, 5>>
    /\ ApiPop[1] = Num(100)
    /\ ApiPop[2] = Num(300)
    /\ ApiPop[3] = Num(50)
    /\ MappedTracts(<<8, 5, 0, 0, 1>>) = {1, 2}
    /\ MappedTracts(<<8, 5, 0, 0, 2>>) = {3}

\* in Scenario A area 85001 gets 0.45 and area 85002 gets 0.4
ScenarioAResult ==
    ScenarioA =>
        /\ Len(zcta_aggregated) = 2
        /\ zcta_aggregated[1].rent_to_income = <<9, 20>>
        /\ zcta_aggregated[2].rent_to_income = <<2, 5>>

\* C1: each rate/ratio/percentage column of the aggregated commute table is
\* the population-weighted mean over the tracts mapped to the area; in
\* Scenario A area 1 gets 0.45 and area 2 gets 0.4.
C1_RatesArePopulationWeighted ==
    /\ RatesArePopulationWeighted
    /\ ScenarioAResult

-----------------------------------------------------------------------------
(* Income segmentation of the merged table: SpecSeg *)

\* median_income of an area: missing (no demographic match), the weighted
\* mean of null codes, 0 (no population), or a positive income
SegIncomes == {NaN, Num(SENTINEL), Num(0), Num(1), Num(2), Num(4)}

InitSeg ==
    /\ TigerIdle /\ AssemblyIdle /\ RunIdle /\ CallIdle
    /\ stage = "merged"
    /\ \E incomes \in SeqsUpTo(SegIncomes, MaxRows) :
         final_dataset =
             [i \in 1..Len(incomes) |->
                 [ZCTA5CE |-> Zfill(<<i>>, ZCTA_WIDTH),
                  median_income |-> incomes[i]]]
    /\ acs_api = <<>>
    /\ acs_raw = <<>>
    /\ acs_features = <<>>
    /\ demo_api = <<>>
    /\ demo_raw = <<>>
    /\ demo_with_pct = <<>>
    /\ tracts_gdf = <<>>
    /\ zctas_gdf = <<>>
    /\ tract_to_zcta_map = <<>>
    /\ zcta_aggregated = <<>>
    /\ zcta_demographics = <<>>

NextSeg == CreateIncomeSegments

SpecSeg == InitSeg /\ [][NextSeg]_vars

-----------------------------------------------------------------------------
(* Claims on the income segmentation *)

\* rows whose median_income is present; every present income of SpecSeg
\* is a whole number
PresentRows == {i \in DOMAIN final_dataset :
                   ~isna(final_dataset[i].median_income)}

Income(i) == final_dataset[i].median_income[1]

\* the k-th smallest present income, by counting (k in 1..n)
KthIncome(k) ==
    LET i == CHOOSE j \in PresentRows :
                 /\ Cardinality({m \in PresentRows : Income(m) < Income(j)})
                        < k
                 /\ k <= Cardinality({m \in PresentRows :
                                         Income(m) <= Income(j)})
    IN  Income(i)

\* den times the empirical num/den quantile of the present incomes, with
\* linear interpolation between the order statistics around position
\* (n - 1) * num / den
ScaledCut(num, den) ==
    LET n == Cardinality(PresentRows)
        k == ((n - 1) * num) \div den
        r == ((n - 1) * num) % den
    IN  IF r = 0 THEN den * KthIncome(k + 1)
        ELSE (den - r) * KthIncome(k + 1) + r * KthIncome(k + 2)

\* labels by two cut points given as lonum/den and hinum/den quantiles;
\* a row exactly on a cut point is not constrained
SegmentsCutAt(lonum, hinum, den) ==
    stage = "segmented" =>
        \A i \in PresentRows :
            /\ den * Income(i) < ScaledCut(lonum, den)
                   => final_dataset[i].income_segment = "Low"
            /\ den * Income(i) > ScaledCut(hinum, den)
                   => final_dataset[i].income_segment = "High"
            /\ (/\ den * Income(i) > ScaledCut(lonum, den)
                /\ den * Income(i) < ScaledCut(hinum, den))
                   => final_dataset[i].income_segment = "Medium"

-----------------------------------------------------------------------------
(* Fetching ZCTA boundaries by ZIP prefix: SpecZcta *)

\* ZCTA5 codes of the boundary service (Memphis, TN; DeSoto County, MS;
\* Crittenden County, AR)
TigerIds == {<<3, 8, 1, 0, 1>>, <<3, 8, 1, 0, 3>>, <<3, 8, 6, 0, 1>>,
             <<7, 2, 3, 0, 1>>}

\* ZIP prefixes of the memphis configuration
MemphisPrefixes == <<<<3, 8>>, <<7, 2>>, <<3, 8, 6>>>>

\* tiger.py's ZIP_PREFIXES: the list of the metro selected at import
ConfiguredPrefixLists == {METRO_CONFIGS["memphis"].zip_prefixes,
                          METRO_CONFIGS["atlanta"].zip_prefixes}

PrefixesIn(configured) == {configured[k] : k \in DOMAIN configured}

\* lists of prefixes without repetition, taken from a configured list
PrefixLists(configured) ==
    {l \in SeqsUpTo({configured[k] : k \in DOMAIN configured},
                    Len(configured)) :
        \A i, j \in DOMAIN l : i # j => l[i] # l[j]}

\* the layer's rows of the codes in S, in code order
TigerRows(S) ==
    LET ids == SortedStrs(S)
    IN  [i \in 1..Len(ids) |-> [ZCTA5 |-> ids[i], geometry |-> {1}]]

InitZcta ==
    /\ AssemblyIdle /\ RunIdle /\ CallIdle
    /\ stage = "tiger"
    /\ \E S \in SUBSET TigerIds : tiger_server = TigerRows(S)
    /\ zip_prefixes \in PrefixLists(MemphisPrefixes)
    /\ zip_prefixes_is_none \in {b \in BOOLEAN : b => zip_prefixes = <<>>}
    /\ tiger_requests = <<>>
    /\ tiger_ZIP_PREFIXES \in ConfiguredPrefixLists
    /\ cbsa_boundary = {}
    /\ \E failing \in {F \in SUBSET (PrefixesIn(IF zip_prefixes # <<>>
                                                    THEN zip_prefixes
                                                    ELSE tiger_ZIP_PREFIXES)
                                         \X {0, MAX_RECORDS}) :
                            Cardinality(F) <= MaxPageErrors} :
          tiger_errors \in [failing -> PageErrors]
    /\ acs_api = <<>>
    /\ acs_raw = <<>>
    /\ acs_features = <<>>
    /\ demo_api = <<>>
    /\ demo_raw = <<>>
    /\ demo_with_pct = <<>>
    /\ tracts_gdf = <<>>
    /\ zctas_gdf = <<>>
    /\ tract_to_zcta_map = <<>>
    /\ zcta_aggregated = <<>>
    /\ zcta_demographics = <<>>
    /\ final_dataset = <<>>

NextZcta == GetStateZctas

SpecZcta == InitZcta /\ [][NextZcta]_vars

\* C12: the table returned by get_state_zctas holds each ZCTA identifier at
\* most once, for every list of ZIP prefixes, also when one prefix is a
\* prefix of another.
C12_ZctaIdsUniqueInBatch ==
    stage = "zctas" =>
        \A i, j \in DOMAIN zctas_gdf :
            i # j => zctas_gdf[i].ZCTA5CE # zctas_gdf[j].ZCTA5CE

\* the same for lists in which no prefix is a prefix of another
PrefixesDisjoint ==
    LET prefixes == IF zip_prefixes # <<>> THEN zip_prefixes
                    ELSE tiger_ZIP_PREFIXES
    IN  \A i, j \in DOMAIN prefixes :
            i # j => ~IsPrefix(prefixes[i], prefixes[j])

ZctaIdsUniqueForDisjointPrefixes ==
    (stage = "zctas" /\ PrefixesDisjoint) =>
        \A i, j \in DOMAIN zctas_gdf :
            i # j => zctas_gdf[i].ZCTA5CE # zctas_gdf[j].ZCTA5CE

\* the prefixes a call works on
EffectivePrefixes ==
    IF zip_prefixes # <<>> THEN zip_prefixes ELSE tiger_ZIP_PREFIXES

Called == stage \in {"zctas", "failed"}

\* the layer's rows whose code starts with the prefix
Matching(prefix) ==
    SelectSeq(tiger_server, LAMBDA r : IsPrefix(prefix, r.ZCTA5))

\* the offsets 0, max_records, ... that hold a row, and the one after them
PageOffsets(prefix) ==
    {o \in 0..Len(Matching(prefix)) : o % MAX_RECORDS = 0}

\* the first page request of the prefix that fails, if there is one
FailingOffsets(prefix) ==
    {o \in PageOffsets(prefix) : <<prefix, o>> \in DOMAIN tiger_errors}

FirstFailure(prefix) ==
    CHOOSE o \in FailingOffsets(prefix) :
        \A q \in FailingOffsets(prefix) : o <= q

\* the rows of the pages of a prefix that precede its first failing request
RowsBeforeFailure(prefix) ==
    IF FailingOffsets(prefix) = {} THEN Matching(prefix)
    ELSE SubSeq(Matching(prefix), 1, FirstFailure(prefix))

AsZctaRows(rows) ==
    [i \in 1..Len(rows) |->
        [ZCTA5CE |-> rows[i].ZCTA5, geometry |-> rows[i].geometry]]

RequestsOf(prefix) ==
    SelectSeq(tiger_requests, LAMBDA r : r.prefix = prefix)

RequestFails(r) == <<r.prefix, r.offset>> \in DOMAIN tiger_errors

\* the page a request is answered with
PageOf(r) == IF RequestFails(r) THEN <<>>
             ELSE QueryPage(tiger_server, r.prefix, r.offset)

\* C22: for each prefix the pages are requested with the fixed size at
\* offsets 0, size, 2 * size, ... without gap or repetition; the loop stops
\* right after the first page that is empty or short (or fails); it ends
\* after finitely many requests and the result holds every row of every
\* page fetched.
C22_PaginationIsContiguousAndEnds ==
    Called =>
        /\ \A i \in DOMAIN tiger_requests :
              tiger_requests[i].count = MAX_RECORDS
        /\ \A k \in DOMAIN EffectivePrefixes :
              LET reqs == RequestsOf(EffectivePrefixes[k])
              IN  /\ Len(reqs) >= 1
                  /\ Len(reqs) <=
                        Len(Matching(EffectivePrefixes[k])) \div MAX_RECORDS + 1
                  /\ \A i \in DOMAIN reqs :
                        /\ reqs[i].offset = (i - 1) * MAX_RECORDS
                        /\ i < Len(reqs) =>
                              Len(PageOf(reqs[i])) = MAX_RECORDS
                        /\ i = Len(reqs) =>
                              Len(PageOf(reqs[i])) < MAX_RECORDS
        /\ zctas_gdf =
              AsZctaRows(Concat([i \in DOMAIN tiger_requests |->
                                    PageOf(tiger_requests[i])]))

\* prefix 38 has a full page and a short one: two requests, all rows kept
C22_Witness ==
    /\ stage = "zctas"
    /\ zip_prefixes = <<<<3, 8>>>>
    /\ tiger_errors = <<>>
    /\ Len(Matching(<<3, 8>>)) = MAX_RECORDS + 1
    /\ Len(tiger_requests) = 2
    /\ tiger_requests[2].offset = MAX_RECORDS
    /\ Len(zctas_gdf) = MAX_RECORDS + 1

\* C30: a call with an empty list sends the single unfiltered query
\* (where 1=1); a call with None queries the prefixes of ZIP_PREFIXES.
C30_EmptyListQueriesAll ==
    Called =>
        /\ (~zip_prefixes_is_none /\ zip_prefixes = <<>>) =>
              /\ Len(tiger_requests) = 1
              /\ tiger_requests[1].where = "1=1"
        /\ zip_prefixes_is_none =>
              /\ \A i \in DOMAIN tiger_requests :
                    /\ tiger_requests[i].where = "LIKE"
                    /\ tiger_requests[i].prefix \in PrefixesIn(tiger_ZIP_PREFIXES)
              /\ \A q \in PrefixesIn(tiger_ZIP_PREFIXES) : RequestsOf(q) # <<>>

\* what the code does: None and the empty list both take ZIP_PREFIXES
EmptyListUsesConfiguredPrefixes ==
    (Called /\ zip_prefixes = <<>>) =>
        /\ \A i \in DOMAIN tiger_requests :
              /\ tiger_requests[i].where = "LIKE"
              /\ tiger_requests[i].prefix \in PrefixesIn(tiger_ZIP_PREFIXES)
        /\ \A q \in PrefixesIn(tiger_ZIP_PREFIXES) : RequestsOf(q) # <<>>

-----------------------------------------------------------------------------
(* fetch_zori_latest on a downloaded table: SpecZori *)

MaxZoriRows == 2

\* the date columns 2023-12, 2024-01, 2024-02
ZoriPeriods == <<<<2, 0, 2, 3, 1, 2>>, <<2, 0, 2, 4, 0, 1>>,
                 <<2, 0, 2, 4, 0, 2>>>>

ZoriColumnOrders ==
    {ZoriPeriods, [c \in 1..Len(ZoriPeriods) |->
                      ZoriPeriods[Len(ZoriPeriods) + 1 - c]]}

\* RegionName as pandas reads it (501 for 00501)
ZoriRegionNames == {<<5, 0, 1>>, <<3, 8, 6, 0, 1>>}

\* a rent index that tells the table row and the period
ZoriValue(i, period) == 1000 + 10 * i + period[Len(period)]

InitZori ==
    /\ TigerIdle /\ RunIdle /\ CallIdle
    /\ stage = "zori_csv"
    /\ \E n \in 0..MaxZoriRows, columns \in ZoriColumnOrders :
         \E names \in [1..n -> ZoriRegionNames],
            kinds \in [1..n -> [1..Len(columns) -> {"nan", "text", "num"}]] :
            zori_csv =
              [columns |-> columns,
               rows |-> [i \in 1..n |->
                  [RegionName |-> names[i],
                   cells |-> [c \in 1..Len(columns) |->
                      IF kinds[i][c] = "num"
                      THEN <<"num", ZoriValue(i, columns[c])>>
                      ELSE <<kinds[i][c], 0>>]]]]
    /\ zori_latest = <<>>
    /\ zori_data = <<>>
    /\ osm_responses = <<>>
    /\ transit_density = <<>>
    /\ osm_queries = <<>>
    /\ build_log = <<>>
    /\ acs_api = <<>> /\ acs_raw = <<>> /\ acs_features = <<>>
    /\ demo_api = <<>> /\ demo_raw = <<>> /\ demo_with_pct = <<>>
    /\ tracts_gdf = <<>> /\ zctas_gdf = <<>> /\ tract_to_zcta_map = <<>>
    /\ zcta_aggregated = <<>> /\ zcta_demographics = <<>>
    /\ final_dataset = <<>>

NextZori == FetchZoriLatest \/ FetchZori

SpecZori == InitZori /\ [][NextZori]_vars

\* the month count of a column name YYYYMM
RECURSIVE DigitsValue(_)
DigitsValue(d) ==
    IF d = <<>> THEN 0 ELSE 10 * DigitsValue(SubSeq(d, 1, Len(d) - 1)) + d[Len(d)]

Chronological(period) ==
    12 * DigitsValue(SubSeq(period, 1, 4)) + DigitsValue(SubSeq(period, 5, 6))

\* the numeric observations of a zero-padded ZIP in the downloaded table:
\* pairs <<table row, column>>
ZoriObservations(zip) ==
    {o \in (DOMAIN zori_csv.rows) \X (DOMAIN zori_csv.columns) :
        /\ Zfill(zori_csv.rows[o[1]].RegionName, ZCTA_WIDTH) = zip
        /\ zori_csv.rows[o[1]].cells[o[2]][1] = "num"}

ZoriZips ==
    {Zfill(zori_csv.rows[i].RegionName, ZCTA_WIDTH) : i \in DOMAIN zori_csv.rows}

ZoriReturned == stage \in {"aggregated", "zori"}

\* C27: fetch_zori_latest returns at most one row per zero-padded ZIP, the
\* observation of the most recent period with a numeric value for that ZIP;
\* a ZIP without a numeric observation has no row.
C27_LatestNumericObservationPerZip ==
    ZoriReturned =>
        /\ \A i, j \in DOMAIN zori_latest :
              zori_latest[i].zip = zori_latest[j].zip => i = j
        /\ \A i \in DOMAIN zori_latest :
              /\ zori_latest[i].zip \in ZoriZips
              /\ Len(zori_latest[i].zip) = ZCTA_WIDTH
        /\ \A zip \in ZoriZips :
              LET obs == ZoriObservations(zip)
                  hit == SelectSeq(zori_latest, LAMBDA r : r.zip = zip)
              IN  IF obs = {} THEN hit = <<>>
                  ELSE /\ Len(hit) = 1
                       /\ \E o \in obs :
                             /\ hit[1].period = zori_csv.columns[o[2]]
                             /\ hit[1].zori =
                                   Num(zori_csv.rows[o[1]].cells[o[2]][2])
                             /\ \A q \in obs :
                                   Chronological(zori_csv.columns[q[2]])
                                     <= Chronological(hit[1].period)

\* ZIP 00501 has numbers for 2023-12 and 2024-01 and 'MA' for 2024-02, in a
\* file whose columns run from the newest to the oldest; 38601 has no number
C27_Witness ==
    /\ ZoriReturned
    /\ zori_csv.columns[1] = <<2, 0, 2, 4, 0, 2>>
    /\ Len(zori_csv.rows) = 2
    /\ zori_csv.rows[1].RegionName = <<5, 0, 1>>
    /\ zori_csv.rows[1].cells = <<<<"text", 0>>, <<"num", 1011>>,
                                  <<"num", 1012>>>>
    /\ zori_csv.rows[2].RegionName = <<3, 8, 6, 0, 1>>
    /\ zori_csv.rows[2].cells = <<<<"nan", 0>>, <<"text", 0>>, <<"nan", 0>>>>
    /\ zori_latest = <<[zip |-> <<0, 0, 5, 0, 1>>,
                        period |-> <<2, 0, 2, 4, 0, 1>>,
                        zori |-> Num(1011)]>>

-----------------------------------------------------------------------------
(* build_final_dataset from the boundary fetch to the segmentation: SpecBuild *)

\* ZCTA5 codes of the boundary service; the second is not 5 characters wide
BuildIdList == <<<<3, 8, 6, 0, 1>>, <<3, 8, 6, 1>>, <<7, 2, 3, 0, 1>>,
                 <<3, 8, 1, 0, 1>>>>

BuildIds == {BuildIdList[k] : k \in 1..NumBuildIds}

BuildGeoms == {{1}, {2}, {1, 2}}

\* a list without overlapping prefixes, and the memphis list
BuildPrefixLists == {<<<<3, 8>>, <<7, 2>>>>, MemphisPrefixes}

\* the responses to the two Overpass queries of the i-th polygon
BuildOsmResponse(i) ==
    IF i % 2 = 1
    THEN [primary |-> <<"features", 2>>, fallback |-> <<"features", 0>>]
    ELSE [primary |-> <<"raise", "ConnectionError">>,
          fallback |-> <<"raise", "InsufficientResponseError">>]

BuildZoriTables ==
    {<<>>, <<[zip |-> <<3, 8, 6, 0, 1>>, period |-> Num(202401),
              zori |-> Num(1500)]>>}

InitBuild ==
    /\ RunIdle /\ CallIdle
    /\ stage = "tiger"
    /\ \E g \in [BuildIds -> BuildGeoms \cup {{}}] :
         LET ids == SortedStrs({id \in BuildIds : g[id] # {}})
         IN  /\ tiger_server = [i \in 1..Len(ids) |->
                    [ZCTA5 |-> ids[i], geometry |-> g[ids[i]]]]
             /\ osm_responses =
                    [i \in 1..(2 * Len(ids)) |-> BuildOsmResponse(i)]
    /\ tiger_errors = <<>>
    /\ zip_prefixes \in BuildPrefixLists
    /\ zip_prefixes_is_none = FALSE
    /\ tiger_requests = <<>>
    /\ tiger_ZIP_PREFIXES = <<<<8, 5>>>>
    /\ cbsa_boundary \in {{1}, {1, 2}}
    /\ \E c \in {1, 2} :
         tracts_gdf = <<[GEOID |-> 1, centroid |-> 1],
                        [GEOID |-> 2, centroid |-> c]>>
    /\ acs_api = <<AcsTractApiRow(1, <<"str", 24000>>),
                   AcsTractApiRow(2, <<"str", 40000>>)>>
    /\ acs_raw = AcsFrame(acs_api, DEFAULT_ACS_YEAR)
    /\ acs_features = compute_acs_features(acs_raw)
    /\ \E n \in 1..2 :
         demo_api = [t \in 1..n |->
                        DemoTractApiRow(t, <<"str", 100 * t>>, <<"str", 2 * t>>)]
    /\ demo_raw = DemoFrame(demo_api, DEFAULT_DEMO_YEAR)
    /\ demo_with_pct = compute_demographic_percentages(demo_raw)
    /\ zori_latest \in BuildZoriTables
    /\ zori_data = <<>>
    /\ transit_density = <<>>
    /\ zori_csv = <<>>
    /\ osm_queries = <<>>
    /\ build_log = <<>>
    /\ zctas_gdf = <<>>
    /\ tract_to_zcta_map = <<>>
    /\ zcta_aggregated = <<>>
    /\ zcta_demographics = <<>>
    /\ final_dataset = <<>>

NextBuild ==
    \/ GetStateZctas
    \/ FilterZctas
    \/ MapTracts
    \/ AggregateToZcta
    \/ FetchZori
    \/ ComputeTransitDensity
    \/ MergeFinalDataset
    \/ CreateIncomeSegments

SpecBuild == InitBuild /\ [][NextBuild]_vars

-----------------------------------------------------------------------------
(* Claims on the merge / assembly *)

KeysOf(df) == {df[i].ZCTA5CE : i \in DOMAIN df}

\* C11: the final dataset has one row per reporting-area identifier: no
\* ZCTA5CE appears in two rows, for every configured list of ZIP prefixes
\* and every set of fetched geometries.
C11_OneRowPerArea ==
    stage \in {"merged", "segmented"} =>
        \A i, j \in DOMAIN final_dataset :
            i # j => final_dataset[i].ZCTA5CE # final_dataset[j].ZCTA5CE

\* the same when the boundary table holds every identifier once
OneRowPerAreaForUniqueZctas ==
    (/\ stage \in {"merged", "segmented"}
     /\ \A i, j \in DOMAIN zctas_gdf :
          i # j => zctas_gdf[i].ZCTA5CE # zctas_gdf[j].ZCTA5CE) =>
        \A i, j \in DOMAIN final_dataset :
            i # j => final_dataset[i].ZCTA5CE # final_dataset[j].ZCTA5CE

\* C13: the identifiers of the final dataset are exactly those of the
\* aggregated commute table; an area without a row in the demographics,
\* rent-index or area table has those columns missing.
C13_FinalKeepsExactlyAggregatedAreas ==
    stage = "merged" =>
        /\ KeysOf(final_dataset) = KeysOf(zcta_aggregated)
        /\ \A i \in DOMAIN final_dataset :
             LET z == final_dataset[i].ZCTA5CE
             IN  /\ z \notin KeysOf(zcta_demographics)
                      => \A c \in DemoZctaCols : isna(final_dataset[i][c])
                 /\ z \notin KeysOf(zori_data)
                      => /\ isna(final_dataset[i].zori)
                         /\ isna(final_dataset[i].period)
                 /\ z \notin KeysOf(transit_density)
                      => isna(final_dataset[i].stops_per_km2)
                 /\ z \notin KeysOf(zcta_area_df(zctas_gdf))
                      => isna(final_dataset[i].pop_density)

\* an area of the commute table without demographics and without a rent
\* index is in the final dataset, and another has both
C13_Witness ==
    /\ stage = "merged"
    /\ \E z \in KeysOf(zcta_aggregated) :
         /\ z \notin KeysOf(zcta_demographics)
         /\ z \notin KeysOf(zori_data)
         /\ z \in KeysOf(final_dataset)
    /\ \E z \in KeysOf(zcta_aggregated) :
         /\ z \in KeysOf(zcta_demographics)
         /\ z \in KeysOf(zori_data)
         /\ z \in KeysOf(final_dataset)

IsNormalized(df) ==
    \A i \in DOMAIN df :
        /\ Len(df[i].ZCTA5CE) = ZCTA_WIDTH
        /\ df[i].ZCTA5CE = Zfill(df[i].ZCTA5CE, ZCTA_WIDTH)

\* the four tables whose key the code passes through zfill(5)
PaddedJoinKeysAreNormalized ==
    stage = "transit" =>
        /\ IsNormalized(zcta_aggregated)
        /\ IsNormalized(zcta_demographics)
        /\ IsNormalized(zori_data)
        /\ IsNormalized(transit_density)

\* the tracts of the tract table whose centroid lies in no area polygon
OutsideTracts ==
    {tracts_gdf[t].GEOID :
        t \in {u \in DOMAIN tracts_gdf :
                  \A i \in DOMAIN zctas_gdf :
                      tracts_gdf[u].centroid \notin zctas_gdf[i].geometry}}

MappedGeoids == {tract_to_zcta_map[k].GEOID : k \in DOMAIN tract_to_zcta_map}

DemoGeoids == {demo_with_pct[i].GEOID : i \in DOMAIN demo_with_pct}

\* total_pop of each tract of the demographic table
BuildTractPop == [g \in DemoGeoids |-> TractRow(demo_with_pct, g).total_pop]

\* total_pop of each row of the aggregated demographic table
AreaPop == [i \in DOMAIN zcta_demographics |-> zcta_demographics[i].total_pop]

Aggregated == stage \in {"aggregated", "zori", "transit", "merged", "segmented"}

UnmappedTractsAreNotCounted ==
    /\ OutsideTracts \cap MappedGeoids = {}
    /\ SumOver(DOMAIN zcta_demographics, AreaPop)
          = Sub(SumOver(DemoGeoids, BuildTractPop),
                SumOver(DemoGeoids \ MappedGeoids, BuildTractPop))

\* C25 as stated: a tract whose centroid lies in no area polygon is absent
\* from the mapping, and total_pop summed over the areas is the source total
\* less the population of the unmapped tracts, for any areas.
C25_UnmappedTractsAreNotCountedAnyAreas ==
    Aggregated => UnmappedTractsAreNotCounted

\* C25 amended: the same when no tract is mapped to two areas (the area
\* polygons of different identifiers do not overlap).
C25_UnmappedTractsAreNotCounted ==
    (Aggregated /\ MappingIsFunction) => UnmappedTractsAreNotCounted

\* a tract with positive population lies outside every area, another is
\* mapped, and the areas' total is strictly below the source total
C25_Witness ==
    /\ Aggregated
    /\ MappingIsFunction
    /\ \E g \in OutsideTracts \cap DemoGeoids : Gt(BuildTractPop[g], Num(0))
    /\ MappedGeoids \cap DemoGeoids # {}
    /\ Lt(SumOver(DOMAIN zcta_demographics, AreaPop),
          SumOver(DemoGeoids, BuildTractPop))

\* the tracts given to the mapping that matched no area
DroppedTracts ==
    {tracts_gdf[t].GEOID : t \in DOMAIN tracts_gdf} \ MappedGeoids

\* a log record that states how many tracts were mapped or were dropped
RecordsDrop(rec) ==
    rec.msg \in {"Mapped tracts", "Unmapped tracts", "Dropped tracts"}

\* C26: a run that dropped tracts at the mapping stage has, when it ends,
\* a log record with the number of tracts dropped or the number mapped.
C26_DroppedTractsAreLogged ==
    (stage \in {"segmented", "failed"} /\ Len(build_log) >= 2
        /\ DroppedTracts # {}) =>
        \E i \in DOMAIN build_log : RecordsDrop(build_log[i])

\* what the code does: of the mapping it logs the number of tracts and of
\* areas given, before the call, and afterwards only numbers of areas
MappingLogsOnlyItsInput ==
    stage \in {"mapped", "aggregated", "zori", "transit", "merged",
               "segmented"} =>
        /\ build_log[2] = [msg |-> "Mapping tracts to ZCTAs",
                           tracts |-> Len(tracts_gdf),
                           zctas |-> Len(zctas_gdf)]
        /\ \A i \in DOMAIN build_log :
              /\ ~RecordsDrop(build_log[i])
              /\ i > 2 => "tracts" \notin DOMAIN build_log[i]

\* C24: when the inner join of the tract features with the tract-to-area
\* mapping has no row, build_final_dataset fails instead of going on to
\* merge, segment and write an empty dataset.
C24_EmptyJoinFailsTheRun ==
    stage \in {"merged", "segmented"} => zcta_aggregated # <<>>

\* what the code does: areas without any mapped tract give an empty final
\* dataset that is segmented (and then written); only a run without any
\* area in the metro fails, with the KeyError of the transit merge
EmptyJoinFailsOnlyWithoutAreas ==
    /\ stage = "failed" => zctas_gdf = <<>>
    /\ (stage \in {"merged", "segmented"} /\ zcta_aggregated = <<>>) =>
          final_dataset = <<>> /\ zctas_gdf # <<>>

\* C14: before the merges, the key of each of the five tables joined on the
\* reporting-area identifier is a 5-character zero-padded string.
C14_JoinKeysNormalizedOnBothSides ==
    /\ PaddedJoinKeysAreNormalized
    /\ stage = "transit" => IsNormalized(zcta_area_df(zctas_gdf))

-----------------------------------------------------------------------------
(* Transit density on enumerated polygons and query outcomes: SpecOsm *)

\* identifier of the i-th polygon: 5 characters wide, or shorter
OsmId(i) == IF i % 2 = 1 THEN <<8, 5, 0, 0, i>> ELSE <<5, 0, i>>

\* polygons of area 0, 1 and 2
OsmGeoms == {{}, {1}, {1, 2}}

OsmPrimaryOutcomes ==
    {<<"features", 0>>, <<"features", 2>>,
     <<"raise", "AttributeError">>, <<"raise", "ConnectionError">>}

OsmFallbackOutcomes ==
    {<<"features", 0>>, <<"features", 1>>,
     <<"raise", "InsufficientResponseError">>, <<"raise", "ValueError">>}

InitOsm ==
    /\ TigerIdle /\ RunIdle /\ CallIdle
    /\ stage = "zori"
    /\ \E n \in 0..MaxZctaRows :
         /\ \E g \in [1..n -> OsmGeoms] :
              zctas_gdf = [i \in 1..n |->
                              [ZCTA5CE |-> OsmId(i), geometry |-> g[i]]]
         /\ osm_responses \in
                [1..n -> [primary : OsmPrimaryOutcomes,
                          fallback : OsmFallbackOutcomes]]
    /\ zori_latest = <<>>
    /\ zori_data = <<>>
    /\ transit_density = <<>>
    /\ zori_csv = <<>>
    /\ osm_queries = <<>>
    /\ build_log = <<>>
    /\ acs_api = <<>>
    /\ acs_raw = <<>>
    /\ acs_features = <<>>
    /\ demo_api = <<>>
    /\ demo_raw = <<>>
    /\ demo_with_pct = <<>>
    /\ tracts_gdf = <<>>
    /\ tract_to_zcta_map = <<>>
    /\ zcta_aggregated = <<>>
    /\ zcta_demographics = <<>>
    /\ final_dataset = <<>>

NextOsm == ComputeTransitDensity

SpecOsm == InitOsm /\ [][NextOsm]_vars

\* the query found nothing: it returned no features, or it raised
FoundNothing(outcome) == outcome[1] = "raise" \/ outcome[2] = 0

\* C20: zcta_transit_density returns one row per input row, in input order,
\* whichever queries raise; a polygon both of whose queries return no
\* features or raise gets stops_per_km2 = 0 (not missing); the other
\* polygons are still queried and get their density; no exception of a
\* query leaves the function.
C20_TransitDensityIsolatesFailures ==
    /\ stage # "failed"
    /\ stage = "transit" =>
         /\ Len(transit_density) = Len(zctas_gdf)
         /\ \A i \in DOMAIN zctas_gdf :
              /\ transit_density[i].ZCTA5CE
                     = Zfill(zctas_gdf[i].ZCTA5CE, ZCTA_WIDTH)
              /\ (FoundNothing(osm_responses[i].primary)
                     /\ FoundNothing(osm_responses[i].fallback))
                   => transit_density[i].stops_per_km2 = Num(0)
              /\ (~FoundNothing(osm_responses[i].primary)
                     /\ zctas_gdf[i].geometry # {})
                   => transit_density[i].stops_per_km2
                          = Div(Num(osm_responses[i].primary[2]),
                                Num(Cardinality(zctas_gdf[i].geometry)))

\* the queries of the first polygon raise, the second polygon has stops
C20_Witness ==
    /\ stage = "transit"
    /\ Len(zctas_gdf) = 2
    /\ osm_responses[1].primary[1] = "raise"
    /\ osm_responses[1].fallback[1] = "raise"
    /\ transit_density[1].stops_per_km2 = Num(0)
    /\ osm_responses[2].primary = <<"features", 2>>
    /\ transit_density[2].stops_per_km2 = Num(2)

\* the queries sent for the i-th polygon, in the order sent
QueriesOfRow(i) == SelectSeq(osm_queries, LAMBDA q : q.row = i)

\* stops_per_km2 of a polygon with that many stops
DensityOf(stop_count, geometry) ==
    IF geometry = {} THEN Num(0)
    ELSE Div(Num(stop_count), Num(Cardinality(geometry)))

\* C28: for each polygon the bus-stop query is sent exactly when the
\* public_transport query found nothing (no features, or an error), and
\* after it; the stop count is the number of public_transport features when
\* there is one, else the number of bus-stop features (0 if that query
\* fails too).
C28_FallbackExactlyWhenPrimaryIsEmpty ==
    stage = "transit" =>
        /\ \A k \in 1..(Len(osm_queries) - 1) :
              osm_queries[k].row <= osm_queries[k + 1].row
        /\ \A i \in DOMAIN zctas_gdf :
              IF FoundNothing(osm_responses[i].primary)
              THEN /\ QueriesOfRow(i) =
                         <<[row |-> i, tags |-> "public_transport"],
                           [row |-> i, tags |-> "highway=bus_stop"]>>
                   /\ transit_density[i].stops_per_km2 =
                         DensityOf(IF FoundNothing(osm_responses[i].fallback)
                                   THEN 0
                                   ELSE osm_responses[i].fallback[2],
                                   zctas_gdf[i].geometry)
              ELSE /\ QueriesOfRow(i) =
                         <<[row |-> i, tags |-> "public_transport"]>>
                   /\ transit_density[i].stops_per_km2 =
                         DensityOf(osm_responses[i].primary[2],
                                   zctas_gdf[i].geometry)

\* the first polygon's public_transport query raises and its bus-stop query
\* finds one stop; the second polygon has two public_transport features
C28_Witness ==
    /\ stage = "transit"
    /\ Len(zctas_gdf) = 2
    /\ zctas_gdf[1].geometry # {}
    /\ osm_responses[1].primary = <<"raise", "ConnectionError">>
    /\ osm_responses[1].fallback = <<"features", 1>>
    /\ osm_responses[2].primary = <<"features", 2>>
    /\ Len(osm_queries) = 3
    /\ transit_density[1].stops_per_km2 # Num(0)

-----------------------------------------------------------------------------
(* The process of run_pipeline.py: import, then batch or single mode *)

NoRun == [step |-> "none"]

\* mutant: a METRO that was unset before the call is not deleted
RestoreMetro_NoDelete(original_metro, env) ==
    IF original_metro # "unset" THEN original_metro ELSE env

\* the finally clause of run_single_metro: METRO is set back to
\* original_metro, or deleted when original_metro is None
RestoreMetro(original_metro, env) ==
    IF original_metro # "unset" THEN original_metro
    ELSE IF env # "unset" THEN "unset"
    ELSE env

NewRun(mode, metro, env, fs) ==
    [mode |-> mode, metro |-> metro, original_metro |-> env,
     step |-> "reload", locals |-> [SELECTED_METRO |-> "unbound"],
     reads |-> {}, failed_at |-> "none", error |-> "none",
     files_before |-> fs]

\* run_pipeline.py line 49: importing build imports config, spatial and
\* tiger, which bind their module globals
ImportPipeline ==
    /\ stage = "process"
    /\ pc = "start"
    /\ config' = load_config(environ)
    /\ spatial_UTM_ZONE' = config'.UTM_ZONE
    /\ tiger_ZIP_PREFIXES' = config'.ZIP_PREFIXES
    /\ pc' = "main"
    /\ UNCHANGED <<stage, tableVars, assemblyVars, callVars>>
    /\ UNCHANGED <<tiger_server, tiger_errors, zip_prefixes,
                   zip_prefixes_is_none, tiger_requests, cbsa_boundary>>
    /\ UNCHANGED <<environ, results, run, files, attempted, summary>>

\* main with --all
StartBatch ==
    /\ stage = "process"
    /\ pc = "main"
    /\ pc' = "batch"
    /\ results' = <<>>
    /\ UNCHANGED <<stage, tableVars, tigerVars, assemblyVars, callVars>>
    /\ UNCHANGED <<environ, config, spatial_UTM_ZONE, run, files, attempted,
                   summary>>

\* main without --all: build_final_dataset is called under the
\* environment's METRO
StartSingle ==
    /\ stage = "process"
    /\ pc = "main"
    /\ pc' = "single"
    /\ run' = NewRun("single", GetenvMetro(environ), environ, files)
    /\ attempted' = Append(attempted, GetenvMetro(environ))
    /\ UNCHANGED <<stage, tableVars, tigerVars, assemblyVars, callVars>>
    /\ UNCHANGED <<environ, config, spatial_UTM_ZONE, results, files, summary>>

\* the loop of main calls run_single_metro, which sets METRO and calls
\* build_final_dataset
BeginRun ==
    /\ stage = "process"
    /\ pc = "batch"
    /\ run = NoRun
    /\ Len(results) < Len(AllMetros)
    /\ LET metro == AllMetros[Len(results) + 1]
       IN  /\ run' = NewRun("batch", metro, environ, files)
           /\ environ' = metro
           /\ attempted' = Append(attempted, metro)
    /\ UNCHANGED <<stage, tableVars, tigerVars, assemblyVars, callVars>>
    /\ UNCHANGED <<config, spatial_UTM_ZONE, pc, results, files, summary>>

\* one statement of build_final_dataset completes
StepCompletes ==
    /\ stage = "process"
    /\ run.step \in {BuildSteps[i] : i \in DOMAIN BuildSteps}
    /\ LET step == run.step
           locals == IF step = "reload" THEN load_config(environ)
                     ELSE run.locals
       IN  /\ config' = IF step = "reload" THEN load_config(environ)
                        ELSE config
           /\ run' = [run EXCEPT
                        !.step = StepAfter(step),
                        !.locals = locals,
                        !.reads = @ \cup StepReads(step, locals,
                                                   spatial_UTM_ZONE,
                                                   tiger_ZIP_PREFIXES)]
           /\ files' = FilesAfter(step, locals, run.metro, files)
    /\ UNCHANGED <<stage, tableVars, tigerVars, assemblyVars, callVars>>
    /\ UNCHANGED <<environ, spatial_UTM_ZONE, pc, results, attempted, summary>>

\* one statement of build_final_dataset raises
StepRaises ==
    /\ stage = "process"
    /\ run.step \in {BuildSteps[i] : i \in DOMAIN BuildSteps}
    /\ \E kind \in ErrorKinds :
          run' = [run EXCEPT !.step = "raised", !.failed_at = run.step,
                             !.error = kind]
    /\ files' = FilesAfterRaise(run.step, run.locals, files)
    /\ UNCHANGED <<stage, tableVars, tigerVars, assemblyVars, callVars>>
    /\ UNCHANGED <<environ, config, spatial_UTM_ZONE, pc, results, attempted,
                   summary>>

\* run_single_metro returns (its except and finally clauses) and the loop
\* appends the result; an exception no clause catches leaves main
EndRun ==
    /\ stage = "process"
    /\ pc = "batch"
    /\ run.step \in {"return", "raised"}
    /\ environ' = RestoreMetro(run.original_metro, environ)
    /\ run' = NoRun
    /\ IF run.step = "return"
       THEN /\ results' = Append(results,
                             <<run.metro, TRUE, run.locals.FINAL_ZCTA_OUT>>)
            /\ pc' = pc
       ELSE IF CaughtByRunSingleMetro(run.error)
       THEN /\ results' = Append(results,
                             <<run.metro, FALSE, ErrorMessage(run.error)>>)
            /\ pc' = pc
       ELSE /\ results' = results
            /\ pc' = "crashed"
    /\ UNCHANGED <<stage, tableVars, tigerVars, assemblyVars, callVars>>
    /\ UNCHANGED <<config, spatial_UTM_ZONE, files, attempted, summary>>

\* the summary of main after the loop
Summarize ==
    /\ stage = "process"
    /\ pc = "batch"
    /\ run = NoRun
    /\ Len(results) = Len(AllMetros)
    /\ LET failed_metros == FailedMetros(results)
       IN  summary' = <<[i \in DOMAIN failed_metros |-> failed_metros[i][1]],
                        IF failed_metros # <<>> THEN 1 ELSE 0>>
    /\ pc' = "batch_done"
    /\ UNCHANGED <<stage, tableVars, tigerVars, assemblyVars, callVars>>
    /\ UNCHANGED <<environ, config, spatial_UTM_ZONE, results, run, files,
                   attempted>>

\* single mode: main returns 0, or 1 from its except clause
EndSingle ==
    /\ stage = "process"
    /\ pc = "single"
    /\ run.step \in {"return", "raised"}
    /\ summary' = <<<<>>, IF run.step = "return" THEN 0 ELSE 1>>
    /\ pc' = "single_done"
    /\ UNCHANGED <<stage, tableVars, tigerVars, assemblyVars, callVars>>
    /\ UNCHANGED <<environ, config, spatial_UTM_ZONE, results, run, files,
                   attempted>>

\* METRO when the process starts: unset, a configured metro, an unknown key
StartEnvs == {"unset", "memphis", "gotham"}

FinalPaths ==
    {<<"final_zcta_dataset", m>> : m \in DOMAIN METRO_CONFIGS \cup {"gotham"}}

Paths == FinalPaths \cup {DebugMapPath, DebugZoriPath}

InitRun ==
    /\ stage = "process"
    /\ acs_api = <<>> /\ acs_raw = <<>> /\ acs_features = <<>>
    /\ demo_api = <<>> /\ demo_raw = <<>> /\ demo_with_pct = <<>>
    /\ tracts_gdf = <<>> /\ zctas_gdf = <<>> /\ tract_to_zcta_map = <<>>
    /\ zcta_aggregated = <<>> /\ zcta_demographics = <<>>
    /\ final_dataset = <<>>
    /\ TigerIdle /\ AssemblyIdle /\ CallIdle
    /\ environ \in StartEnvs
    /\ config = [SELECTED_METRO |-> "unloaded"]
    /\ spatial_UTM_ZONE = 0
    /\ pc = "start"
    /\ results = <<>>
    /\ run = NoRun
    /\ \E content \in {<<>>, <<"old">>} : files = [path \in Paths |-> content]
    /\ attempted = <<>>
    /\ summary = <<>>

NextRun ==
    \/ ImportPipeline
    \/ StartBatch
    \/ StartSingle
    \/ BeginRun
    \/ StepCompletes
    \/ StepRaises
    \/ EndRun
    \/ Summarize
    \/ EndSingle

SpecRun == InitRun /\ [][NextRun]_vars

\* the statements of a sequential process are executed one after another
SpecRunFair == SpecRun /\ WF_vars(NextRun)

InRun == run.step # "none"

\* the value METRO_CONFIGS holds for a metro
ConfiguredValue(metro, item) ==
    IF item = "cbsa_code" THEN METRO_CONFIGS[metro].cbsa_code
    ELSE IF item = "zip_prefixes" THEN METRO_CONFIGS[metro].zip_prefixes
    ELSE IF item = "counties" THEN METRO_CONFIGS[metro].counties
    ELSE IF item = "utm_zone" THEN <<METRO_CONFIGS[metro].utm_zone>>
    ELSE <<"final_zcta_dataset", metro>>

ReadValue(r) == IF r[2] = "utm_zone" THEN <<r[3]>> ELSE r[3]

\* C15: during the batch run for metro m every configuration value a stage
\* reads (CBSA code, counties, ZIP prefixes, output path, and the UTM CRS of
\* filter_zctas_in_cbsa, tract_to_zcta_centroid_map and the area computation)
\* is m's value.
C15_EveryStageReadsTheRunsMetro ==
    (InRun /\ run.mode = "batch") =>
        \A r \in run.reads : ReadValue(r) = ConfiguredValue(run.metro, r[2])

\* what the code does keep: the values build_final_dataset binds after the
\* reload are the run's metro's, and the two spatial stages read the UTM
\* zone bound when spatial.py was imported
BuildLocalsAreCurrent ==
    (InRun /\ run.mode = "batch") =>
        \A r \in run.reads :
            IF r[1] \in {"filter", "map"}
            THEN r[3] = spatial_UTM_ZONE
            ELSE ReadValue(r) = ConfiguredValue(run.metro, r[2])

\* C16: in batch mode no failure of a metro stops the batch: the metros are
\* attempted once each in list order, results holds one (metro, success,
\* message) per finished metro in that order, and after the loop the failed
\* metros are reported and the exit code is 1 exactly when there is one;
\* the batch always reaches that report.
BatchIsolatesFailures ==
    /\ pc # "crashed"
    /\ pc \in {"batch", "batch_done"} =>
        /\ Len(attempted) <= Len(AllMetros)
        /\ attempted = SubSeq(AllMetros, 1, Len(attempted))
        /\ Len(attempted) = Len(results) + (IF InRun THEN 1 ELSE 0)
        /\ \A i \in DOMAIN results :
              /\ results[i][1] = AllMetros[i]
              /\ results[i][2] \in BOOLEAN
              /\ results[i][2] =>
                    files[<<"final_zcta_dataset", AllMetros[i]>>]
                        = <<"dataset", AllMetros[i]>>
    /\ pc = "batch_done" =>
        /\ attempted = AllMetros
        /\ Len(results) = Len(AllMetros)
        /\ \A m \in {AllMetros[i] : i \in DOMAIN AllMetros} :
              (\E j \in DOMAIN summary[1] : summary[1][j] = m)
                 <=> (\E i \in DOMAIN results :
                         results[i][1] = m /\ ~results[i][2])
        /\ summary[2] = (IF \E i \in DOMAIN results : ~results[i][2]
                         THEN 1 ELSE 0)

C16_BatchIsolatesFailures ==
    /\ []BatchIsolatesFailures
    /\ (pc = "batch") ~> (pc = "batch_done")

\* a batch finished in which the first metro failed with an exception of
\* the catch-all clause and a later metro succeeded
C16_Witness ==
    /\ pc = "batch_done"
    /\ ~results[1][2]
    /\ results[1][3] = ErrorMessage("RuntimeError")
    /\ results[2][2]
    /\ summary = <<<<AllMetros[1]>>, 1>>

\* C17: the CSV write is the last statement of build_final_dataset, so a run
\* in which an earlier statement raised has neither created nor modified
\* any final dataset file.
C17_FailedRunLeavesOutputUntouched ==
    /\ \A i \in DOMAIN BuildSteps :
          WritesFinalCsv(BuildSteps[i]) <=> i = Len(BuildSteps)
    /\ (InRun /\ run.step = "raised"
              /\ run.failed_at # BuildSteps[Len(BuildSteps)]) =>
          \A path \in FinalPaths : files[path] = run.files_before[path]

\* a batch run failed in the segmentation step, after the merge, and the
\* metro's dataset of an earlier process is still in place
C17_Witness ==
    /\ InRun
    /\ run.step = "raised"
    /\ run.failed_at = "segment"
    /\ files[<<"final_zcta_dataset", run.metro>>] = <<"old">>

\* C18: a METRO that is no key of METRO_CONFIGS makes the run raise an
\* invalid-parameter error at once, before any fetch and before any output,
\* and is never given another region's configuration.
C18_UnknownMetroIsRejected ==
    (InRun /\ run.metro \notin DOMAIN METRO_CONFIGS) =>
        /\ run.step \in {"reload", "raised"}
        /\ run.step = "raised" =>
              run.failed_at = "reload" /\ run.error \in {"ValueError", "KeyError"}
        /\ run.reads = {}
        /\ files = run.files_before

\* what the code does for an unknown key: the run proceeds under the
\* configuration of phoenix and an output path named after the unknown key
UnknownMetroRunsAsPhoenix ==
    (InRun /\ run.metro \notin DOMAIN METRO_CONFIGS
           /\ run.step \notin {"reload", "raised"}) =>
        /\ run.locals.CBSA_CODE = METRO_CONFIGS["phoenix"].cbsa_code
        /\ run.locals.COUNTIES = METRO_CONFIGS["phoenix"].counties
        /\ run.locals.UTM_ZONE = METRO_CONFIGS["phoenix"].utm_zone
        /\ run.locals.FINAL_ZCTA_OUT = <<"final_zcta_dataset", run.metro>>

\* the steps of build_final_dataset that call a source client other than the
\* point-density client: get_cbsa_polygon, get_state_zctas,
\* get_tracts_for_counties, fetch_acs_for_county,
\* fetch_demographics_for_county, fetch_zori_latest
ClientSteps == {"cbsa", "zctas", "tracts", "acs", "demo", "zori"}

\* C23: no source client other than the point-density client writes to the
\* local filesystem: a step that calls one leaves every file as it was.
C23_SourceClientsWriteNoFile ==
    [][(InRun /\ run.step \in ClientSteps) => files' = files]_vars

\* what the code does: the ZORI client rewrites its debug table; the
\* boundary and Census clients write nothing
OnlyZoriClientWritesDebugFile ==
    [][(InRun /\ run.step \in ClientSteps) =>
          /\ run.step # "zori" => files' = files
          /\ \A path \in Paths \ {DebugZoriPath} :
                files'[path] = files[path]]_vars

InBatchRun == InRun /\ run.mode = "batch"

\* C29: run_single_metro leaves METRO as it found it: the value read when
\* the call starts is the one in place when the call ends, by return or by
\* exception, and nothing else in batch mode changes METRO, so that it
\* holds after any sequence of calls.
C29_RunLeavesMetroAsFound ==
    [][/\ (pc = "batch" /\ ~InRun /\ InRun') =>
             run'.original_metro = environ
       /\ (InBatchRun /\ InRun') =>
             run'.original_metro = run.original_metro
       /\ (InBatchRun /\ ~InRun') => environ' = run.original_metro
       /\ (pc = "batch" /\ ~InRun /\ ~InRun') => environ' = environ]_vars

\* the process started without METRO; a first call has failed, a second
\* has succeeded and METRO is unset again
C29_Witness ==
    /\ pc = "batch"
    /\ ~InRun
    /\ Len(results) = 2
    /\ ~results[1][2]
    /\ results[2][2]
    /\ environ = "unset"

-----------------------------------------------------------------------------
(* Parameter validation of the two Census fetch functions *)

\* characters of a code: two decimal digits and a letter
CodeChars == {"0", "4", "x"}

\* str.isdigit: a non-empty string of digits
isdigit(str) == str # <<>> /\ \A i \in DOMAIN str : str[i] \in {"0", "4"}

\* acs.py: AVAILABLE_ACS_YEARS
AVAILABLE_ACS_YEARS == {2015, 2017, 2019, 2021, 2023}

\* demographics.py: available_years
available_years == {2015, 2017, 2019, 2021, 2023}

\* the three checks at the head of fetch_acs_for_county
fetch_acs_for_county_Invalid(state_fips, county_fips, year) ==
    \/ state_fips = <<>> \/ ~isdigit(state_fips) \/ Len(state_fips) # 2
    \/ county_fips = <<>> \/ ~isdigit(county_fips) \/ Len(county_fips) # 3
    \/ year \notin AVAILABLE_ACS_YEARS

\* mutant: the year is not checked
fetch_demographics_for_county_Invalid_AnyYear(state_fips, county_fips, year) ==
    \/ ~(isdigit(state_fips) /\ Len(state_fips) = 2)
    \/ ~(isdigit(county_fips) /\ Len(county_fips) = 3)

\* the three checks at the head of fetch_demographics_for_county
fetch_demographics_for_county_Invalid(state_fips, county_fips, year) ==
    \/ ~(isdigit(state_fips) /\ Len(state_fips) = 2)
    \/ ~(isdigit(county_fips) /\ Len(county_fips) = 3)
    \/ year \notin available_years

\* the request a fetch function sends to api.census.gov
CensusRequest(dataset, args) ==
    [dataset |-> dataset, year |-> args.year, state |-> args.state_fips,
     county |-> args.county_fips]

\* fetch_acs_for_county: validation, then requests.get and raise_for_status
FetchAcsForCounty ==
    /\ stage = "call"
    /\ call_args.fn = "fetch_acs_for_county"
    /\ call_outcome = "none"
    /\ IF fetch_acs_for_county_Invalid(call_args.state_fips,
                                       call_args.county_fips, call_args.year)
       THEN /\ call_outcome' = "ValueError"
            /\ http_log' = http_log
       ELSE /\ http_log' = Append(http_log, CensusRequest("acs5", call_args))
            /\ call_outcome' \in {"returned", "HTTPError"}
    /\ UNCHANGED <<stage, tableVars, tigerVars, assemblyVars, runVars,
                   call_args>>

\* fetch_demographics_for_county: validation, then http_json_to_dict
FetchDemographicsForCounty ==
    /\ stage = "call"
    /\ call_args.fn = "fetch_demographics_for_county"
    /\ call_outcome = "none"
    /\ IF fetch_demographics_for_county_Invalid(call_args.state_fips,
                                                call_args.county_fips,
                                                call_args.year)
       THEN /\ call_outcome' = "ValueError"
            /\ http_log' = http_log
       ELSE /\ http_log' = Append(http_log, CensusRequest("acs5", call_args))
            /\ call_outcome' \in {"returned", "HTTPError"}
    /\ UNCHANGED <<stage, tableVars, tigerVars, assemblyVars, runVars,
                   call_args>>

RECURSIVE CodesOfLen(_)
CodesOfLen(n) ==
    IF n = 0 THEN {<<>>}
    ELSE {Append(code, ch) : code \in CodesOfLen(n - 1), ch \in CodeChars}

Codes == UNION {CodesOfLen(n) : n \in 0..MaxCodeLen}

YearInputs == {2014, 2015, 2016, 2017, 2019, 2020, 2021, 2023, 2024}

InitCall ==
    /\ stage = "call"
    /\ acs_api = <<>> /\ acs_raw = <<>> /\ acs_features = <<>>
    /\ demo_api = <<>> /\ demo_raw = <<>> /\ demo_with_pct = <<>>
    /\ tracts_gdf = <<>> /\ zctas_gdf = <<>> /\ tract_to_zcta_map = <<>>
    /\ zcta_aggregated = <<>> /\ zcta_demographics = <<>>
    /\ final_dataset = <<>>
    /\ TigerIdle /\ AssemblyIdle /\ RunIdle
    /\ call_args \in [fn : {"fetch_acs_for_county",
                            "fetch_demographics_for_county"},
                      state_fips : Codes, county_fips : Codes,
                      year : YearInputs]
    /\ call_outcome = "none"
    /\ http_log = <<>>

NextCall == FetchAcsForCounty \/ FetchDemographicsForCounty

SpecCall == InitCall /\ [][NextCall]_vars

\* a code of exactly n decimal digits
IsNumericCode(code, n) ==
    Len(code) = n /\ \A i \in DOMAIN code : code[i] \in {"0", "4"}

\* C19: when the state code is not a 2-digit numeric string, the county code
\* is not a 3-digit numeric string, or the year is outside {2015, 2017, 2019,
\* 2021, 2023}, either fetch function raises ValueError and sends no request.
C19_InvalidParametersRaiseBeforeAnyRequest ==
    (/\ stage = "call"
     /\ call_outcome # "none"
     /\ \/ ~IsNumericCode(call_args.state_fips, 2)
        \/ ~IsNumericCode(call_args.county_fips, 3)
        \/ call_args.year \notin {2015, 2017, 2019, 2021, 2023})
    => (call_outcome = "ValueError" /\ http_log = <<>>)

\* fetch_demographics_for_county was called with well-formed codes and the
\* year 2020, raised ValueError and sent nothing
C19_Witness ==
    /\ stage = "call"
    /\ call_args = [fn |-> "fetch_demographics_for_county",
                    state_fips |-> <<"0", "4">>,
                    county_fips |-> <<"0", "4", "0">>, year |-> 2020]
    /\ call_outcome = "ValueError"
    /\ http_log = <<>>

=============================================================================
